---- MODULE Spec2Model ----
(***************************************************************************)
(* A model of the go-secrets resolver: tag parsing, the record walker, the *)
(* fetch planner and scheduler of Resolve, type coercion, error            *)
(* aggregation, Validate and Close.                                        *)
(*                                                                         *)
(* Go strings and byte slices are sequences of one-character strings, so   *)
(* that parsing, formatting and substring tests are computed rather than   *)
(* assumed.                                                                *)
(***************************************************************************)
EXTENDS Integers, Sequences, FiniteSets, Bags, TLC

(***************************************************************************)
(* package strings                                                         *)
(***************************************************************************)
SetMin(S) == CHOOSE x \in S : \A y \in S : x <= y

SetMax(S) == CHOOSE x \in S : \A y \in S : x >= y

\* positions (1-based) at which sub occurs in s
Occurrences(s, sub) ==
    {i \in 1..(Len(s) - Len(sub) + 1) : SubSeq(s, i, i + Len(sub) - 1) = sub}

\* strings.Index, 1-based; 0 when sub does not occur
Index(s, sub) ==
    IF Occurrences(s, sub) = {} THEN 0 ELSE SetMin(Occurrences(s, sub))

\* strings.LastIndex, 1-based; 0 when sub does not occur
LastIndex(s, sub) ==
    IF Occurrences(s, sub) = {} THEN 0 ELSE SetMax(Occurrences(s, sub))

HasPrefix(s, p) == Len(s) >= Len(p) /\ SubSeq(s, 1, Len(p)) = p

\* p occurs in s at position i
HasPrefixAt(s, i, p) == i + Len(p) - 1 <= Len(s) /\ SubSeq(s, i, i + Len(p) - 1) = p

TrimPrefix(s, p) == IF HasPrefix(s, p) THEN SubSeq(s, Len(p) + 1, Len(s)) ELSE s

\* strings.Split(s, sep) for a non-empty separator
RECURSIVE Split(_, _)
Split(s, sep) ==
    LET i == Index(s, sep)
    IN  IF i = 0 THEN <<s>>
        ELSE <<SubSeq(s, 1, i - 1)>> \o Split(SubSeq(s, i + Len(sep), Len(s)), sep)

\* strings.Cut
Cut(s, sep) ==
    LET i == Index(s, sep)
    IN  IF i = 0 THEN [before |-> s, after |-> <<>>, found |-> FALSE]
        ELSE [before |-> SubSeq(s, 1, i - 1),
              after  |-> SubSeq(s, i + Len(sep), Len(s)),
              found  |-> TRUE]

IsSpace(c) == c \in {" ", "\t", "\n", "\r"}

RECURSIVE TrimLeft(_)
TrimLeft(s) == IF s # <<>> /\ IsSpace(Head(s)) THEN TrimLeft(Tail(s)) ELSE s

RECURSIVE TrimRight(_)
TrimRight(s) ==
    IF s # <<>> /\ IsSpace(s[Len(s)]) THEN TrimRight(SubSeq(s, 1, Len(s) - 1)) ELSE s

TrimSpace(s) == TrimRight(TrimLeft(s))

\* the %q verb: a double-quoted Go string literal
RECURSIVE EscapeQ(_)
EscapeQ(s) ==
    IF s = <<>> THEN <<>>
    ELSE (IF Head(s) = "\"" THEN <<"\\","\"">>
          ELSE IF Head(s) = "\\" THEN <<"\\","\\">>
          ELSE <<Head(s)>>) \o EscapeQ(Tail(s))

Quote(s) == <<"\"">> \o EscapeQ(s) \o <<"\"">>

(***************************************************************************)
(* package errors / fmt.Errorf                                             *)
(***************************************************************************)
NilError == [kind |-> "nil"]

\* errors.New / fmt.Errorf without %w
errorString(s) == [kind |-> "errorString", s |-> s]

\* secrets.ErrNotFound, a sentinel compared by identity
ErrNotFound == [kind |-> "ErrNotFound"]

RECURSIVE Error(_)
RECURSIVE JoinText(_)

\* fmt.Errorf(prefix + "%w", err)
wrapError(prefix, err) == [kind |-> "wrapError", msg |-> prefix \o Error(err), err |-> err]

ErrNoDefaultProvider(Field, Key) ==
    [kind |-> "ErrNoDefaultProvider", Field |-> Field, Key |-> Key]

ErrUnknownProvider(Field, Scheme, URI) ==
    [kind |-> "ErrUnknownProvider", Field |-> Field, Scheme |-> Scheme, URI |-> URI]

ErrConversion(Field, TypeName, Raw, Err) ==
    [kind |-> "ErrConversion", Field |-> Field, TypeName |-> TypeName, Raw |-> Raw, Err |-> Err]

ErrUnsupportedType(Field, TypeName) ==
    [kind |-> "ErrUnsupportedType", Field |-> Field, TypeName |-> TypeName]

ErrVersioningNotSupported(Field, Provider) ==
    [kind |-> "ErrVersioningNotSupported", Field |-> Field, Provider |-> Provider]

\* the Error() method of every error kind
Error(e) ==
    CASE e.kind = "errorString" -> e.s
      [] e.kind = "ErrNotFound" -> <<"s","e","c","r","e","t"," ","n","o","t"," ","f","o","u","n","d">>
      [] e.kind = "wrapError" -> e.msg
      [] e.kind = "joinError" -> JoinText(e.errs)
      [] e.kind = "ErrNoDefaultProvider" ->
            <<"s","e","c","r","e","t","s",":"," ","f","i","e","l","d"," ">> \o e.Field \o <<":"," ","n","o"," ","d","e","f","a","u","l","t"," ","p","r","o","v","i","d","e","r"," ","f","o","r"," ","b","a","r","e"," ","k","e","y"," ">> \o Quote(e.Key)
      [] e.kind = "ErrUnknownProvider" ->
            <<"s","e","c","r","e","t","s",":"," ","f","i","e","l","d"," ">> \o e.Field \o <<":"," ","u","n","k","n","o","w","n"," ","p","r","o","v","i","d","e","r"," ">> \o Quote(e.Scheme)
                \o <<" ","f","o","r"," ","U","R","I"," ">> \o Quote(e.URI)
      [] e.kind = "ErrConversion" ->
            <<"s","e","c","r","e","t","s",":"," ","f","i","e","l","d"," ">> \o e.Field \o <<":"," ","c","a","n","n","o","t"," ","c","o","n","v","e","r","t"," ">> \o Quote(e.Raw)
                \o <<" ","t","o"," ">> \o e.TypeName \o <<":"," ">> \o Error(e.Err)
      [] e.kind = "ErrUnsupportedType" ->
            <<"s","e","c","r","e","t","s",":"," ","f","i","e","l","d"," ">> \o e.Field \o <<":"," ","u","n","s","u","p","p","o","r","t","e","d"," ","t","y","p","e"," ">> \o e.TypeName
      [] e.kind = "ErrVersioningNotSupported" ->
            <<"s","e","c","r","e","t","s",":"," ","f","i","e","l","d"," ">> \o e.Field \o <<":"," ","p","r","o","v","i","d","e","r"," ">> \o Quote(e.Provider)
                \o <<" ","d","o","e","s"," ","n","o","t"," ","s","u","p","p","o","r","t"," ","v","e","r","s","i","o","n","i","n","g">>

JoinText(errs) ==
    IF Len(errs) = 1 THEN Error(errs[1])
    ELSE Error(errs[1]) \o <<"\n">> \o JoinText(Tail(errs))

\* errors.Join: nil when there is nothing to join
Join(errs) == IF errs = <<>> THEN NilError ELSE [kind |-> "joinError", errs |-> errs]

\* errors.Is(err, ErrNotFound): identity along the Unwrap chain
RECURSIVE IsNotFound(_)
IsNotFound(e) ==
    CASE e.kind = "ErrNotFound" -> TRUE
      [] e.kind = "wrapError" -> IsNotFound(e.err)
      [] e.kind = "ErrConversion" -> IsNotFound(e.Err)
      [] e.kind = "joinError" -> \E i \in 1..Len(e.errs) : IsNotFound(e.errs[i])
      [] OTHER -> FALSE

\* errors.As(err, &target) for a target of the error type named kind
RECURSIVE As(_, _)
As(e, kind) ==
    \/ e.kind = kind
    \/ e.kind = "wrapError" /\ As(e.err, kind)
    \/ e.kind = "ErrConversion" /\ As(e.Err, kind)
    \/ e.kind = "joinError" /\ \E i \in 1..Len(e.errs) : As(e.errs[i], kind)

(***************************************************************************)
(* tag.go                                                                  *)
(***************************************************************************)
parsedTag(Scheme, Key, Fragment, Optional, Version) ==
    [Scheme |-> Scheme, Key |-> Key, Fragment |-> Fragment,
     Optional |-> Optional, Version |-> Version]

ZeroTag == parsedTag(<<>>, <<>>, <<>>, FALSE, <<>>)

\* the option loop of parseTag over parts[i..]; t carries Optional and Version
RECURSIVE parseOptions(_, _, _)
parseOptions(parts, i, t) ==
    IF i > Len(parts) THEN [t |-> t, err |-> NilError]
    ELSE LET opt == parts[i]
         IN  IF opt = <<"o","p","t","i","o","n","a","l">>
                THEN parseOptions(parts, i + 1, [t EXCEPT !.Optional = TRUE])
             ELSE IF HasPrefix(opt, <<"v","e","r","s","i","o","n","=">>)
                THEN parseOptions(parts, i + 1,
                                  [t EXCEPT !.Version = TrimPrefix(opt, <<"v","e","r","s","i","o","n","=">>)])
             ELSE [t |-> ZeroTag,
                   err |-> errorString(<<"s","e","c","r","e","t","s",":"," ","u","n","k","n","o","w","n"," ","t","a","g"," ","o","p","t","i","o","n"," ">> \o Quote(opt))]

\* an end of parseTag that lets an empty key pass
parseKey_NoKeyCheck(raw, opts, frag, cut, uri) ==
    IF opts.err # NilError THEN opts
    ELSE [t |-> [opts.t EXCEPT !.Fragment = frag,
                               !.Scheme = IF cut.found THEN cut.before ELSE <<>>,
                               !.Key = IF cut.found THEN cut.after ELSE uri],
          err |-> NilError]

\* the end of parseTag: the scheme and the key cut out of uri, the check of
\* the key; opts is the outcome of the option loop
parseKey(raw, opts, frag, cut, uri) ==
    IF opts.err # NilError THEN opts
    ELSE IF (IF cut.found THEN cut.after ELSE uri) = <<>>
        THEN [t |-> ZeroTag,
              err |-> errorString(<<"s","e","c","r","e","t","s",":"," ","e","m","p","t","y"," ","k","e","y"," ","i","n"," ","t","a","g"," ">> \o Quote(raw))]
    ELSE [t |-> [opts.t EXCEPT !.Fragment = frag,
                               !.Scheme = IF cut.found THEN cut.before ELSE <<>>,
                               !.Key = IF cut.found THEN cut.after ELSE uri],
          err |-> NilError]

\* parseTag from the extraction of the fragment on; idx is the position of
\* the last "#" of uri0, 0 when it has none
parseFragment(raw, opts, uri0, idx) ==
    parseKey(raw, opts,
             IF idx >= 1 THEN SubSeq(uri0, idx + 1, Len(uri0)) ELSE <<>>,
             Cut(IF idx >= 1 THEN SubSeq(uri0, 1, idx - 1) ELSE uri0, <<":","/","/">>),
             IF idx >= 1 THEN SubSeq(uri0, 1, idx - 1) ELSE uri0)

\* parseTag after the split at the commas
parseParts(raw, parts) ==
    parseFragment(raw, parseOptions(parts, 2, ZeroTag), parts[1],
                  LastIndex(parts[1], <<"#">>))

parseTag(raw) ==
    IF raw = <<>> THEN [t |-> ZeroTag, err |-> errorString(<<"s","e","c","r","e","t","s",":"," ","e","m","p","t","y"," ","t","a","g">>)]
    ELSE parseParts(raw, Split(raw, <<",">>))

\* parsedTag.URI, the canonical URI used for deduplication
URI(t) == IF t.Scheme # <<>> THEN t.Scheme \o <<":","/","/">> \o t.Key ELSE t.Key

(***************************************************************************)
(* fetchKey                                                                *)
(***************************************************************************)
fetchKey(uri, version) == [uri |-> uri, version |-> version]

\* fetchKey.String, the key of the seen and results maps of Resolve
String(fk) == IF fk.version # <<>> THEN fk.uri \o <<"@">> \o fk.version ELSE fk.uri

(***************************************************************************)
(* reflect: types and values                                               *)
(*                                                                         *)
(* A type is a record [kind, name, bits, elem, fields, textUnmarshaler];   *)
(* elem is <<>> or <<t>>.  A struct field is [Name, Anonymous, Tag, Type]  *)
(* where Tag is <<>> when the field has no secret tag and <<raw>> when it  *)
(* has one.  A value is a character sequence (string, []byte), a Boolean,  *)
(* an integer, <<>> or <<v>> (a nil or non-nil pointer) or the sequence of *)
(* the field values (a struct).  A storage slot is the path of indices     *)
(* that leads to it from the root of the record.                           *)
(***************************************************************************)
BasicType(kind, name, bits) ==
    [kind |-> kind, name |-> name, bits |-> bits, elem |-> <<>>, fields |-> <<>>,
     textUnmarshaler |-> FALSE]

PointerTo(t) ==
    [kind |-> "ptr", name |-> <<"*">> \o t.name, bits |-> 0, elem |-> <<t>>, fields |-> <<>>,
     textUnmarshaler |-> FALSE]

StructOf(name, fields) ==
    [kind |-> "struct", name |-> name, bits |-> 0, elem |-> <<>>, fields |-> fields,
     textUnmarshaler |-> FALSE]

StructField(Name, Tag, Type) ==
    [Name |-> Name, Anonymous |-> FALSE, Tag |-> Tag, Type |-> Type]

Embedded(Type) ==
    [Name |-> Type.name, Anonymous |-> TRUE, Tag |-> <<>>, Type |-> Type]

UpperCase == {"A", "B", "C", "D", "E", "F", "G", "H", "I", "J", "K", "L", "M",
              "N", "O", "P", "Q", "R", "S", "T", "U", "V", "W", "X", "Y", "Z"}

\* reflect.StructField.IsExported
IsExported(field) == Head(field.Name) \in UpperCase

\* secrets.Versioned[T]
Versioned(t) ==
    StructOf(<<"s","e","c","r","e","t","s",".","V","e","r","s","i","o","n","e","d","[">> \o t.name \o <<"]">>,
             <<StructField(<<"C","u","r","r","e","n","t">>, <<>>, t), StructField(<<"P","r","e","v","i","o","u","s">>, <<>>, t)>>)

\* reflect.Zero
RECURSIVE Zero(_)
Zero(t) ==
    CASE t.kind \in {"string", "slice", "ptr", "map"} -> <<>>
      [] t.kind = "bool" -> FALSE
      [] t.kind = "struct" -> [i \in 1..Len(t.fields) |-> Zero(t.fields[i].Type)]
      [] OTHER -> 0

\* the value stored at a path below v
RECURSIVE GetAt(_, _)
GetAt(v, path) == IF path = <<>> THEN v ELSE GetAt(v[Head(path)], Tail(path))

\* reflect.Value.Set on the slot at a path below v
RECURSIVE SetAt(_, _, _)
SetAt(v, path, new) ==
    IF path = <<>> THEN new
    ELSE [v EXCEPT ![Head(path)] = SetAt(v[Head(path)], Tail(path), new)]

\* isSupportedType checks if the given type can be set by setField
isSupportedType(t0) ==
    LET t == IF t0.kind = "ptr" THEN t0.elem[1] ELSE t0
    IN  \/ t.textUnmarshaler
        \/ t.kind \in {"string", "bool", "int", "int8", "int16", "int32", "int64",
                       "uint", "uint8", "uint16", "uint32", "uint64",
                       "float32", "float64"}
        \/ t.kind = "slice" /\ t.elem # <<>> /\ t.elem[1].kind = "uint8"

\* isVersionedType: a struct with exactly the fields Current and Previous of one type
isVersionedType(t) ==
    /\ t.kind = "struct"
    /\ Len(t.fields) = 2
    /\ t.fields[1].Name = <<"C","u","r","r","e","n","t">>
    /\ t.fields[2].Name = <<"P","r","e","v","i","o","u","s">>
    /\ t.fields[1].Type = t.fields[2].Type

\* hasSecretTags: the struct type, or a struct nested in it, has a tagged field
RECURSIVE hasSecretTags(_)
hasSecretTags(t) ==
    \E i \in 1..Len(t.fields) :
        LET f  == t.fields[i]
            ft == IF f.Type.kind = "ptr" THEN f.Type.elem[1] ELSE f.Type
        IN  \/ f.Tag # <<>>
            \/ ft.kind = "struct" /\ hasSecretTags(ft)

(***************************************************************************)
(* Providers and the resolver configuration                                *)
(*                                                                         *)
(* A provider instance is [id, versioned, closer]: versioned says that it  *)
(* implements VersionedProvider, closer that it implements io.Closer.      *)
(***************************************************************************)
NoProvider == [id |-> "nil", versioned |-> FALSE, closer |-> FALSE]

\* the options WithDefault, WithProvider and WithParallelism applied to a config
WithDefault(c, p) == [c EXCEPT !.defaultProvider = p]

WithProvider(c, scheme, p) ==
    [c EXCEPT !.providers = [s \in DOMAIN c.providers \cup {scheme} |->
                                 IF s = scheme THEN p ELSE c.providers[s]]]

\* WithParallelism without the clamp of values below 1
WithParallelism_NoClamp(c, n) == [c EXCEPT !.parallelism = n]

WithParallelism(c, n) == [c EXCEPT !.parallelism = IF n < 1 THEN 1 ELSE n]

ZeroConfig == [defaultProvider |-> NoProvider, providers |-> <<>>, parallelism |-> 0]

\* NewResolver after the options were applied: parallelism 0 becomes 10
NewResolver(c) == IF c.parallelism = 0 THEN [c EXCEPT !.parallelism = 10] ELSE c

(***************************************************************************)
(* The record walker                                                       *)
(***************************************************************************)
fieldInfo(fieldName, fieldValue, fieldType, tag, provider, providerName, isVersioned) ==
    [fieldName |-> fieldName, fieldValue |-> fieldValue, fieldType |-> fieldType,
     tag |-> tag, provider |-> provider, providerName |-> providerName,
     isVersioned |-> isVersioned]

\* collectBound without the check that a versioned pair is bound to a
\* provider with GetVersion
collectBound_NoVersionCheck(field, slot, tag, provider, providerName) ==
    [fi |-> <<fieldInfo(field.Name, slot, field.Type, tag, provider, providerName,
                        isVersionedType(field.Type))>>,
     err |-> <<>>]

\* the end of the body of the first loop, once the provider is determined:
\* the check of a Versioned[T] field and the fieldInfo
collectBound(field, slot, tag, provider, providerName) ==
    IF isVersionedType(field.Type) /\ ~provider.versioned
        THEN [fi |-> <<>>,
              err |-> <<ErrVersioningNotSupported(field.Name, providerName)>>]
    ELSE [fi |-> <<fieldInfo(field.Name, slot, field.Type, tag, provider, providerName,
                             isVersionedType(field.Type))>>,
          err |-> <<>>]

\* the body of the first loop after parseTag returned p = [t, err]
collectParsed(cfg, field, slot, p) ==
    IF p.err # NilError
        THEN [fi |-> <<>>,
              err |-> <<wrapError(<<"s","e","c","r","e","t","s",":"," ","f","i","e","l","d"," ">> \o field.Name \o <<":"," ">>, p.err)>>]
    ELSE IF p.t.Scheme # <<>>
        THEN (IF p.t.Scheme \notin DOMAIN cfg.providers
                 THEN [fi |-> <<>>,
                       err |-> <<ErrUnknownProvider(field.Name, p.t.Scheme, URI(p.t))>>]
                 ELSE collectBound(field, slot, p.t, cfg.providers[p.t.Scheme],
                                   p.t.Scheme))
    ELSE (IF cfg.defaultProvider = NoProvider
             THEN [fi |-> <<>>, err |-> <<ErrNoDefaultProvider(field.Name, p.t.Key)>>]
             ELSE collectBound(field, slot, p.t, cfg.defaultProvider, <<"d","e","f","a","u","l","t">>))

\* the body of the first loop of collectFields for a tagged, exported field:
\* the fieldInfo it appends (fi = <<>> when it appends an error instead)
collectField(cfg, field, slot) ==
    collectParsed(cfg, field, slot, parseTag(field.Tag[1]))

\* collectFields(cfg, st, path, acc): walks the struct of type st stored at path
\* in acc.root; acc = [fields, errs, root] collects the tagged fields and the
\* errors and carries the record, in which nil struct pointers get allocated.
RECURSIVE collectFields(_, _, _, _)
RECURSIVE collectTagged(_, _, _, _, _)
RECURSIVE collectNested(_, _, _, _, _)

\* the append to fields or to errs that ends the body of the first loop; c is
\* the outcome of the body
appendField(acc, c) == [acc EXCEPT !.fields = @ \o c.fi, !.errs = @ \o c.err]

\* first loop of collectFields, from field i on
collectTagged(cfg, st, path, i, acc) ==
    IF i > Len(st.fields) THEN acc
    ELSE
    LET field == st.fields[i]
        slot  == path \o <<i>>
    IN  collectTagged(cfg, st, path, i + 1,
            IF field.Anonymous /\ field.Type.kind = "struct"
                THEN collectFields(cfg, field.Type, slot, acc)
            ELSE IF ~IsExported(field) \/ field.Tag = <<>> THEN acc
            ELSE appendField(acc, collectField(cfg, field, slot)))

\* second loop of collectFields, from field i on: untagged nested structs
collectNested(cfg, st, path, i, acc) ==
    IF i > Len(st.fields) THEN acc
    ELSE
    LET field  == st.fields[i]
        slot   == path \o <<i>>
        isPtr  == field.Type.kind = "ptr"
        isNil  == isPtr /\ GetAt(acc.root, slot) = <<>>
        actualType == IF isPtr THEN field.Type.elem[1] ELSE field.Type
        actualVal  == IF isPtr THEN slot \o <<1>> ELSE slot
        alloc  == IF isNil
                     THEN [acc EXCEPT !.root = SetAt(@, slot, <<Zero(actualType)>>)]
                     ELSE acc
    IN  collectNested(cfg, st, path, i + 1,
            IF field.Anonymous \/ ~IsExported(field) \/ field.Tag # <<>> THEN acc
            ELSE IF isNil /\ actualType.kind # "struct" THEN acc
            ELSE IF actualType.kind = "struct" /\ hasSecretTags(actualType)
                THEN collectFields(cfg, actualType, actualVal, alloc)
            ELSE alloc)

\* a walker that enters the untagged nested structs before the tagged fields
collectFields_NestedFirst(cfg, st, path, acc) ==
    collectTagged(cfg, st, path, 1, collectNested(cfg, st, path, 1, acc))

collectFields(cfg, st, path, acc) ==
    collectNested(cfg, st, path, 1, collectTagged(cfg, st, path, 1, acc))

(***************************************************************************)
(* package strconv                                                         *)
(***************************************************************************)
Digits == <<"0","1","2","3","4","5","6","7","8","9">>

IsDigit(c) == c \in {Digits[i] : i \in 1..10}

DigitValue(c) == (CHOOSE i \in 1..10 : Digits[i] = c) - 1

RECURSIVE DigitsValue(_)
DigitsValue(s) ==
    IF s = <<>> THEN 0
    ELSE 10 * DigitsValue(SubSeq(s, 1, Len(s) - 1)) + DigitValue(s[Len(s)])

\* strconv.FormatInt(n, 10)
RECURSIVE FormatUint(_)
FormatUint(n) ==
    IF n < 10 THEN <<Digits[n + 1]>> ELSE FormatUint(n \div 10) \o <<Digits[(n % 10) + 1]>>

FormatInt(n) == IF n < 0 THEN <<"-">> \o FormatUint(-n) ELSE FormatUint(n)

\* *strconv.NumError
NumError(fn, str, msg) ==
    errorString(<<"s","t","r","c","o","n","v",".">> \o fn \o <<":"," ","p","a","r","s","i","n","g"," ">> \o Quote(str) \o <<":"," ">> \o msg)

\* 2^(bits-1) for the widths whose range the modelled payloads can leave; the
\* payloads stay far inside the range of the wider integer types
HalfRange(bits) == IF bits = 8 THEN 128 ELSE IF bits = 16 THEN 32768 ELSE 1000000000

\* strconv.ParseInt(s, 10, bits)
ParseInt(s, bits) ==
    LET signed == s # <<>> /\ Head(s) \in {"+", "-"}
        ds     == IF signed THEN Tail(s) ELSE s
        ok     == ds # <<>> /\ \A i \in 1..Len(ds) : IsDigit(ds[i])
        n      == IF Head(s) = "-" THEN 0 - DigitsValue(ds) ELSE DigitsValue(ds)
    IN  IF ~ok THEN [n |-> 0, err |-> NumError(<<"P","a","r","s","e","I","n","t">>, s, <<"i","n","v","a","l","i","d"," ","s","y","n","t","a","x">>)]
        ELSE IF n < 0 - HalfRange(bits) \/ n > HalfRange(bits) - 1
            THEN [n |-> 0, err |-> NumError(<<"P","a","r","s","e","I","n","t">>, s, <<"v","a","l","u","e"," ","o","u","t"," ","o","f"," ","r","a","n","g","e">>)]
        ELSE [n |-> n, err |-> NilError]

\* strconv.ParseUint(s, 10, bits)
ParseUint(s, bits) ==
    LET ok == s # <<>> /\ \A i \in 1..Len(s) : IsDigit(s[i])
        n  == DigitsValue(s)
    IN  IF ~ok THEN [n |-> 0, err |-> NumError(<<"P","a","r","s","e","U","i","n","t">>, s, <<"i","n","v","a","l","i","d"," ","s","y","n","t","a","x">>)]
        ELSE IF n > 2 * HalfRange(bits) - 1
            THEN [n |-> 0, err |-> NumError(<<"P","a","r","s","e","U","i","n","t">>, s, <<"v","a","l","u","e"," ","o","u","t"," ","o","f"," ","r","a","n","g","e">>)]
        ELSE [n |-> n, err |-> NilError]

\* strconv.ParseBool
ParseBool(s) ==
    IF s \in {<<"1">>, <<"t">>, <<"T">>, <<"T","R","U","E">>, <<"t","r","u","e">>, <<"T","r","u","e">>}
        THEN [n |-> TRUE, err |-> NilError]
    ELSE IF s \in {<<"0">>, <<"f">>, <<"F">>, <<"F","A","L","S","E">>, <<"f","a","l","s","e">>, <<"F","a","l","s","e">>}
        THEN [n |-> FALSE, err |-> NilError]
    ELSE [n |-> FALSE, err |-> NumError(<<"P","a","r","s","e","B","o","o","l">>, s, <<"i","n","v","a","l","i","d"," ","s","y","n","t","a","x">>)]

\* strconv.Atoi
Atoi(s) == ParseInt(s, 64)

(***************************************************************************)
(* Type coercion                                                           *)
(***************************************************************************)
\* customText.UnmarshalText of the resolver tests: a struct with one string
\* field that receives "custom:" followed by the text
UnmarshalText(raw) == <<<<"c","u","s","t","o","m",":">> \o raw>>

\* setField converts raw to the type t of a slot: val is the value stored in
\* the slot when err is nil; nothing is stored otherwise (the float kinds and
\* time.Duration are not among the field types of the records below)
\* the cases of setField that call a parser of strconv: r = [n, err] is the
\* parsed value and the error of the parser
setParsed(t, fieldName, raw, r) ==
    IF r.err # NilError
        THEN [val |-> 0, err |-> ErrConversion(fieldName, t.name, raw, r.err)]
        ELSE [val |-> r.n, err |-> NilError]

\* the pointer case of setField: p is the outcome of setField on the new element
setPointer(p) == IF p.err # NilError THEN p ELSE [val |-> <<p.val>>, err |-> NilError]

RECURSIVE setField(_, _, _)
setField(t, fieldName, raw) ==
    IF t.kind = "ptr" THEN setPointer(setField(t.elem[1], fieldName, raw))
    ELSE IF t.textUnmarshaler THEN [val |-> UnmarshalText(raw), err |-> NilError]
    ELSE CASE t.kind = "string" -> [val |-> raw, err |-> NilError]
           [] t.kind = "slice" /\ t.elem # <<>> /\ t.elem[1].kind = "uint8" ->
                [val |-> raw, err |-> NilError]
           [] t.kind = "bool" -> setParsed(t, fieldName, raw, ParseBool(TrimSpace(raw)))
           [] t.kind \in {"int", "int8", "int16", "int32", "int64"} ->
                setParsed(t, fieldName, raw, ParseInt(TrimSpace(raw), t.bits))
           [] t.kind \in {"uint", "uint8", "uint16", "uint32", "uint64"} ->
                setParsed(t, fieldName, raw, ParseUint(TrimSpace(raw), t.bits))
           [] OTHER -> [val |-> 0, err |-> ErrUnsupportedType(fieldName, t.name)]

(***************************************************************************)
(* fragment.go, with the part of encoding/json it uses: documents without  *)
(* white space, strings without escapes, integer numbers                   *)
(***************************************************************************)
JFail == [ok |-> FALSE, v |-> [t |-> "null"], next |-> 0]

\* a string literal starting at the quote s[i]
jsonString(s, i) ==
    LET close == {j \in (i + 1)..Len(s) : s[j] = "\""}
        j     == SetMin(close)
    IN  IF i > Len(s) \/ s[i] # "\"" \/ close = {} THEN JFail
        ELSE IF \E k \in (i + 1)..(j - 1) : s[k] = "\\" THEN JFail
        ELSE [ok |-> TRUE, v |-> [t |-> "string", s |-> SubSeq(s, i + 1, j - 1)],
              next |-> j + 1]

\* an integer literal starting at s[i]
jsonNumber(s, i) ==
    LET start == IF s[i] = "-" THEN i + 1 ELSE i
        stop  == {j \in start..(Len(s) + 1) : j = Len(s) + 1 \/ ~IsDigit(s[j])}
        j     == SetMin(stop)
        ds    == SubSeq(s, start, j - 1)
    IN  IF ds = <<>> \/ (Len(ds) > 1 /\ ds[1] = "0") THEN JFail
        ELSE [ok |-> TRUE,
              v |-> [t |-> "number",
                     n |-> IF start > i THEN 0 - DigitsValue(ds) ELSE DigitsValue(ds)],
              next |-> j]

RECURSIVE jsonValue(_, _)
RECURSIVE jsonMembers(_, _, _, _)
RECURSIVE jsonElements(_, _, _)

\* an object member whose key k and value v were read
jsonMember(s, keys, vals, k, v) ==
    IF ~v.ok \/ v.next > Len(s) THEN JFail
    ELSE IF s[v.next] = ","
        THEN jsonMembers(s, v.next + 1, Append(keys, k.v.s), Append(vals, v.v))
    ELSE IF s[v.next] = "}"
        THEN [ok |-> TRUE,
              v |-> [t |-> "object", keys |-> Append(keys, k.v.s),
                     vals |-> Append(vals, v.v)],
              next |-> v.next + 1]
    ELSE JFail

\* an object member whose key k was read
jsonKey(s, keys, vals, k) ==
    IF ~k.ok \/ k.next > Len(s) \/ s[k.next] # ":" THEN JFail
    ELSE jsonMember(s, keys, vals, k, jsonValue(s, k.next + 1))

\* the members of an object from s[i] on, after "{" or ","
jsonMembers(s, i, keys, vals) == jsonKey(s, keys, vals, jsonString(s, i))

\* an array element whose value v was read
jsonElement(s, vals, v) ==
    IF ~v.ok \/ v.next > Len(s) THEN JFail
    ELSE IF s[v.next] = "," THEN jsonElements(s, v.next + 1, Append(vals, v.v))
    ELSE IF s[v.next] = "]"
        THEN [ok |-> TRUE, v |-> [t |-> "array", vals |-> Append(vals, v.v)],
              next |-> v.next + 1]
    ELSE JFail

\* the elements of an array from s[i] on, after "[" or ","
jsonElements(s, i, vals) == jsonElement(s, vals, jsonValue(s, i))

jsonValue(s, i) ==
    IF i > Len(s) THEN JFail
    ELSE IF s[i] = "\"" THEN jsonString(s, i)
    ELSE IF s[i] = "-" \/ IsDigit(s[i]) THEN jsonNumber(s, i)
    ELSE IF HasPrefixAt(s, i, <<"t","r","u","e">>)
        THEN [ok |-> TRUE, v |-> [t |-> "bool", b |-> TRUE], next |-> i + 4]
    ELSE IF HasPrefixAt(s, i, <<"f","a","l","s","e">>)
        THEN [ok |-> TRUE, v |-> [t |-> "bool", b |-> FALSE], next |-> i + 5]
    ELSE IF HasPrefixAt(s, i, <<"n","u","l","l">>)
        THEN [ok |-> TRUE, v |-> [t |-> "null"], next |-> i + 4]
    ELSE IF HasPrefixAt(s, i, <<"{","}">>)
        THEN [ok |-> TRUE, v |-> [t |-> "object", keys |-> <<>>, vals |-> <<>>],
              next |-> i + 2]
    ELSE IF s[i] = "{" THEN jsonMembers(s, i + 1, <<>>, <<>>)
    ELSE IF HasPrefixAt(s, i, <<"[","]">>)
        THEN [ok |-> TRUE, v |-> [t |-> "array", vals |-> <<>>], next |-> i + 2]
    ELSE IF s[i] = "[" THEN jsonElements(s, i + 1, <<>>)
    ELSE JFail

\* the value r read from the start of data is the result when it is all of data
jsonWhole(data, r) == IF r.ok /\ r.next = Len(data) + 1 THEN r ELSE JFail

\* json.Unmarshal(data, &root): the whole input must be one value
Unmarshal(data) == jsonWhole(data, jsonValue(data, 1))

\* the order of the characters of object keys, for json.Marshal of a map
CharOrder == <<"-",".","/","0","1","2","3","4","5","6","7","8","9",":","@","A","B","C","D","E","F","G","H","I","J","K","L","M","N","O","P","Q","R","S","T","U","V","W","X","Y","Z","_","a","b","c","d","e","f","g","h","i","j","k","l","m","n","o","p","q","r","s","t","u","v","w","x","y","z">>

Rank(c) == Index(CharOrder, <<c>>)

RECURSIVE Less(_, _)
Less(a, b) ==
    IF b = <<>> THEN FALSE
    ELSE IF a = <<>> THEN TRUE
    ELSE IF Head(a) = Head(b) THEN Less(Tail(a), Tail(b))
    ELSE Rank(Head(a)) < Rank(Head(b))

\* json.Marshal of a decoded value: a map is written with its keys sorted,
\* and holds the last value of a repeated key
RECURSIVE Marshal(_)
RECURSIVE MarshalMembers(_, _)
RECURSIVE MarshalElements(_)

LastOf(v, key) == v.vals[SetMax({i \in 1..Len(v.keys) : v.keys[i] = key})]

MarshalMembers(v, keys) ==
    IF keys = {} THEN <<>>
    ELSE LET k == CHOOSE a \in keys : \A b \in keys \ {a} : Less(a, b)
         IN  Quote(k) \o <<":">> \o Marshal(LastOf(v, k))
                \o (IF keys = {k} THEN <<>> ELSE <<",">> \o MarshalMembers(v, keys \ {k}))

MarshalElements(vals) ==
    IF vals = <<>> THEN <<>>
    ELSE Marshal(Head(vals))
            \o (IF Len(vals) = 1 THEN <<>> ELSE <<",">> \o MarshalElements(Tail(vals)))

Marshal(v) ==
    CASE v.t = "string" -> Quote(v.s)
      [] v.t = "number" -> FormatInt(v.n)
      [] v.t = "bool" -> IF v.b THEN <<"t","r","u","e">> ELSE <<"f","a","l","s","e">>
      [] v.t = "null" -> <<"n","u","l","l">>
      [] v.t = "object" ->
            <<"{">> \o MarshalMembers(v, {v.keys[i] : i \in 1..Len(v.keys)}) \o <<"}">>
      [] v.t = "array" -> <<"[">> \o MarshalElements(v.vals) \o <<"]">>

\* the %T verb for a decoded scalar
GoTypeName(v) ==
    CASE v.t = "string" -> <<"s","t","r","i","n","g">>
      [] v.t = "number" -> <<"f","l","o","a","t","6","4">>
      [] v.t = "bool" -> <<"b","o","o","l">>
      [] OTHER -> <<"<","n","i","l",">">>

\* fmt.Errorf("secrets: fragment %q ...", path) with the rest of the message
fragmentError(path, current, msg) ==
    [v |-> current, err |-> errorString(<<"s","e","c","r","e","t","s",":"," ","f","r","a","g","m","e","n","t"," ">> \o Quote(path) \o msg)]

RECURSIVE walkFragment(_, _, _, _)

\* the array case of the path loop; idx is the outcome of strconv.Atoi(part)
walkArray(path, parts, i, current, idx) ==
    IF idx.err # NilError
        THEN fragmentError(path, current,
                 <<":"," ">> \o Quote(parts[i]) \o <<" ","i","s"," ","n","o","t"," ","a"," ","v","a","l","i","d"," ","a","r","r","a","y"," ","i","n","d","e","x">>)
    ELSE IF idx.n < 0 \/ idx.n >= Len(current.vals)
        THEN fragmentError(path, current,
                 <<":"," ","i","n","d","e","x"," ">> \o FormatInt(idx.n) \o <<" ","o","u","t"," ","o","f"," ","r","a","n","g","e"," ","(","l","e","n"," ">>
                     \o FormatInt(Len(current.vals)) \o <<")">>)
    ELSE walkFragment(path, parts, i + 1, current.vals[idx.n + 1])

\* the path loop of extractFragment over parts[i..], at the value current
walkFragment(path, parts, i, current) ==
    IF i > Len(parts) THEN [v |-> current, err |-> NilError]
    ELSE IF current.t = "object"
        THEN (IF \E k \in 1..Len(current.keys) : current.keys[k] = parts[i]
                 THEN walkFragment(path, parts, i + 1, LastOf(current, parts[i]))
                 ELSE fragmentError(path, current, <<" ","n","o","t"," ","f","o","u","n","d">>))
    ELSE IF current.t = "array"
        THEN walkArray(path, parts, i, current, Atoi(parts[i]))
    ELSE fragmentError(path, current, <<":"," ","c","a","n","n","o","t"," ","i","n","d","e","x"," ","i","n","t","o"," ">> \o GoTypeName(current))

\* the end of extractFragment: the bytes of the value the path loop ended at
fragmentBytes(w) ==
    IF w.err # NilError THEN [data |-> <<>>, err |-> w.err]
    ELSE [data |-> CASE w.v.t = "string" -> w.v.s
                     [] w.v.t = "number" -> FormatInt(w.v.n)
                     [] w.v.t = "bool" -> (IF w.v.b THEN <<"t","r","u","e">> ELSE <<"f","a","l","s","e">>)
                     [] w.v.t = "null" -> <<"n","u","l","l">>
                     [] OTHER -> Marshal(w.v),
          err |-> NilError]

\* extractFragment after json.Unmarshal returned root
fragmentOf(path, root) ==
    IF ~root.ok
        THEN [data |-> <<>>,
              err |-> wrapError(<<"s","e","c","r","e","t","s",":"," ","i","n","v","a","l","i","d"," ","J","S","O","N",":"," ">>,
                                errorString(<<"i","n","v","a","l","i","d"," ","c","h","a","r","a","c","t","e","r">>))]
    ELSE fragmentBytes(walkFragment(path, Split(path, <<".">>), 1, root.v))

\* extractFragment extracts a value from a JSON blob by dot-delimited path
extractFragment(data, path) == fragmentOf(path, Unmarshal(data))

(***************************************************************************)
(* Validate                                                                *)
(***************************************************************************)
\* validateParsed without the check of the field type
validateParsed_NoTypeCheck(cfg, field, p) ==
    IF p.err # NilError
        THEN <<wrapError(<<"s","e","c","r","e","t","s",":"," ","f","i","e","l","d"," ">> \o field.Name \o <<":"," ">>, p.err)>>
    ELSE IF p.t.Scheme # <<>>
        THEN (IF p.t.Scheme \notin DOMAIN cfg.providers
                 THEN <<ErrUnknownProvider(field.Name, p.t.Scheme, URI(p.t))>>
                 ELSE <<>>)
    ELSE (IF cfg.defaultProvider = NoProvider
             THEN <<ErrNoDefaultProvider(field.Name, p.t.Key)>>
             ELSE <<>>)

\* the checks of validateStruct on a field after parseTag returned p = [t, err]
validateParsed(cfg, field, p) ==
    IF p.err # NilError
        THEN <<wrapError(<<"s","e","c","r","e","t","s",":"," ","f","i","e","l","d"," ">> \o field.Name \o <<":"," ">>, p.err)>>
    ELSE (IF p.t.Scheme # <<>>
             THEN (IF p.t.Scheme \notin DOMAIN cfg.providers
                      THEN <<ErrUnknownProvider(field.Name, p.t.Scheme, URI(p.t))>>
                      ELSE <<>>)
             ELSE (IF cfg.defaultProvider = NoProvider
                      THEN <<ErrNoDefaultProvider(field.Name, p.t.Key)>>
                      ELSE <<>>))
         \o (IF ~isSupportedType(IF isVersionedType(field.Type)
                                    THEN field.Type.fields[1].Type
                                    ELSE field.Type)
                THEN <<ErrUnsupportedType(field.Name, field.Type.name)>>
                ELSE <<>>)

\* the checks of validateStruct on a tagged, exported field: the errors it appends
validateField(cfg, field) == validateParsed(cfg, field, parseTag(field.Tag[1]))

\* validateStruct walks a struct type and validates all tagged fields, from
\* field i on; errs are the errors collected so far
RECURSIVE validateStruct(_, _, _, _)
validateStruct(cfg, st, i, errs) ==
    IF i > Len(st.fields) THEN errs
    ELSE
    LET field == st.fields[i]
        ft    == IF field.Type.kind = "ptr" THEN field.Type.elem[1] ELSE field.Type
    IN  validateStruct(cfg, st, i + 1,
            IF field.Anonymous
                THEN (IF ft.kind = "struct" THEN validateStruct(cfg, ft, 1, errs) ELSE errs)
            ELSE IF ~IsExported(field) THEN errs
            ELSE IF field.Tag = <<>>
                THEN (IF ft.kind = "struct" /\ hasSecretTags(ft)
                         THEN validateStruct(cfg, ft, 1, errs) ELSE errs)
            ELSE errs \o validateField(cfg, field))

\* Resolver.Validate on a pointer to a record of type st
Validate(cfg, st) == Join(validateStruct(cfg, st, 1, <<>>))

(***************************************************************************)
(* The provider contract.  The state of a provider is [data, versions,     *)
(* failing]: data maps a key to the current bytes, versions maps           *)
(* <<key, version>> to bytes, and a key in failing cannot be read.         *)
(***************************************************************************)
ProviderFailure(key) ==
    wrapError(<<"f","i","l","e",":"," ">> \o Quote(key) \o <<":"," ">>, errorString(<<"p","e","r","m","i","s","s","i","o","n"," ","d","e","n","i","e","d">>))

\* Provider.Get
Get(store, key) ==
    IF key \in store.failing THEN [data |-> <<>>, err |-> ProviderFailure(key)]
    ELSE IF key \notin DOMAIN store.data
        THEN [data |-> <<>>,
              err |-> wrapError(<<"l","i","t","e","r","a","l",":"," ">> \o Quote(key) \o <<":"," ">>, ErrNotFound)]
    ELSE [data |-> store.data[key], err |-> NilError]

\* VersionedProvider.GetVersion
GetVersion(store, key, version) ==
    IF key \in store.failing THEN [data |-> <<>>, err |-> ProviderFailure(key)]
    ELSE IF <<key, version>> \notin DOMAIN store.versions
        THEN [data |-> <<>>,
              err |-> wrapError(<<"l","i","t","e","r","a","l",":"," ">> \o Quote(key) \o <<" ","v","e","r","s","i","o","n"," ">>
                                    \o Quote(version) \o <<":"," ">>, ErrNotFound)]
    ELSE [data |-> store.versions[<<key, version>>], err |-> NilError]

(***************************************************************************)
(* Resolve, phase 2: the plan of unique fetches                            *)
(***************************************************************************)
fetchSpec(key, fi, version) == [key |-> key, fi |-> fi, version |-> version]

\* the fetch keys a field needs, in the order in which Resolve looks at them
KeysOf(fi) ==
    IF fi.isVersioned
        THEN <<fetchKey(URI(fi.tag), <<>>), fetchKey(URI(fi.tag), <<"p","r","e","v","i","o","u","s">>)>>
        ELSE <<fetchKey(URI(fi.tag), fi.tag.Version)>>

\* one step of the planning loop: the key fk of field fi against the seen map
planKey(plan, fi, fk) ==
    IF String(fk) \in plan.seen THEN plan
    ELSE [seen  |-> plan.seen \cup {String(fk)},
          specs |-> Append(plan.specs, fetchSpec(fk, fi, fk.version))]

\* the planning loop of Resolve over fields[i..]
RECURSIVE buildPlan(_, _, _)
buildPlan(fields, i, plan) ==
    IF i > Len(fields) THEN plan
    ELSE LET ks == KeysOf(fields[i])
             p1 == planKey(plan, fields[i], ks[1])
         IN  buildPlan(fields, i + 1,
                       IF Len(ks) = 2 THEN planKey(p1, fields[i], ks[2]) ELSE p1)

(***************************************************************************)
(* Resolve, phase 3: assignment of one field                               *)
(***************************************************************************)
\* fieldError with %v in place of %w
fieldError_NoWrap(fi, err) == errorString(<<"s","e","c","r","e","t","s",":"," ","f","i","e","l","d"," ">> \o fi.fieldName \o <<":"," ">> \o Error(err))

fieldError(fi, err) == wrapError(<<"s","e","c","r","e","t","s",":"," ","f","i","e","l","d"," ">> \o fi.fieldName \o <<":"," ">>, err)

\* the fetched bytes after the fragment of the tag, if any, was extracted
afterFragment(fi, data) ==
    IF fi.tag.Fragment # <<>> THEN extractFragment(data, fi.tag.Fragment)
    ELSE [data |-> data, err |-> NilError]

\* an assignment that stores what setField returned whatever its error
setSlot_StoreOnError(root, slot, set) ==
    [root |-> SetAt(root, slot, set.val), errs |-> IF set.err # NilError THEN <<set.err>> ELSE <<>>]

\* the end of an assignment: set is the outcome of setField for the slot
setSlot(root, slot, set) ==
    IF set.err # NilError THEN [root |-> root, errs |-> <<set.err>>]
    ELSE [root |-> SetAt(root, slot, set.val), errs |-> <<>>]

\* an assignment after the fragment was extracted: frag = [data, err]
setExtracted(fi, root, slot, t, name, frag) ==
    IF frag.err # NilError THEN [root |-> root, errs |-> <<fieldError(fi, frag.err)>>]
    ELSE setSlot(root, slot, setField(t, name, frag.data))

\* the fetched bytes data go to the slot of type t: fragment, then setField
setFetched(fi, root, slot, t, name, data) ==
    setExtracted(fi, root, slot, t, name, afterFragment(fi, data))

\* the body of the assignment loop for a field that is not a Versioned[T],
\* with the result of its fetch key
assignFetched(fi, root, result) ==
    IF result.err # NilError
        THEN (IF fi.tag.Optional /\ IsNotFound(result.err)
                 THEN [root |-> root, errs |-> <<>>]
                 ELSE [root |-> root, errs |-> <<fieldError(fi, result.err)>>])
    ELSE setFetched(fi, root, fi.fieldValue, fi.fieldType, fi.fieldName, result.data)

\* the body of the assignment loop for a field that is not a Versioned[T]:
\* the record after it and the error it appends, if any
assignPlain(fi, results, root) ==
    assignFetched(fi, root, results[String(fetchKey(URI(fi.tag), fi.tag.Version))])

\* the second half of the body for a Versioned[T] field: a = [root, errs] is
\* the outcome of the first half, which ends the iteration when it has an error
assignPrevious(fi, a, previousResult) ==
    IF a.errs # <<>> THEN a
    ELSE IF previousResult.err # NilError
        THEN (IF ~IsNotFound(previousResult.err)
                 THEN [root |-> a.root, errs |-> <<fieldError(fi, previousResult.err)>>]
                 ELSE [root |-> a.root, errs |-> <<>>])
    ELSE setFetched(fi, a.root, fi.fieldValue \o <<2>>, fi.fieldType.fields[2].Type,
                    fi.fieldName \o <<".","P","r","e","v","i","o","u","s">>, previousResult.data)

\* the first half of the body for a Versioned[T] field
assignCurrent(fi, root, currentResult, previousResult) ==
    IF currentResult.err # NilError
        THEN (IF fi.tag.Optional /\ IsNotFound(currentResult.err)
                 THEN [root |-> root, errs |-> <<>>]
                 ELSE [root |-> root, errs |-> <<fieldError(fi, currentResult.err)>>])
    ELSE assignPrevious(fi,
             setFetched(fi, root, fi.fieldValue \o <<1>>, fi.fieldType.fields[1].Type,
                        fi.fieldName \o <<".","C","u","r","r","e","n","t">>, currentResult.data),
             previousResult)

\* the body of the assignment loop for a Versioned[T] field
assignVersioned(fi, results, root) ==
    assignCurrent(fi, root, results[String(fetchKey(URI(fi.tag), <<>>))],
                  results[String(fetchKey(URI(fi.tag), <<"p","r","e","v","i","o","u","s">>))])

assignField(fi, results, root) ==
    IF fi.isVersioned THEN assignVersioned(fi, results, root)
    ELSE assignPlain(fi, results, root)

(***************************************************************************)
(* The inputs: field types, records, providers, configurations             *)
(***************************************************************************)
TString == BasicType("string", <<"s","t","r","i","n","g">>, 0)

TInt == BasicType("int", <<"i","n","t">>, 64)

TInt8 == BasicType("int8", <<"i","n","t","8">>, 8)

TBool == BasicType("bool", <<"b","o","o","l">>, 0)

TComplex == BasicType("complex128", <<"c","o","m","p","l","e","x","1","2","8">>, 128)

TMap == BasicType("map", <<"m","a","p","[","s","t","r","i","n","g","]","s","t","r","i","n","g">>, 0)

TBytes ==
    [kind |-> "slice", name |-> <<"[","]","u","i","n","t","8">>, bits |-> 0,
     elem |-> <<BasicType("uint8", <<"u","i","n","t","8">>, 8)>>, fields |-> <<>>,
     textUnmarshaler |-> FALSE]

\* the customText type of the resolver tests
TCustomText ==
    [StructOf(<<"s","e","c","r","e","t","s",".","c","u","s","t","o","m","T","e","x","t">>, <<StructField(<<"V","a","l","u","e">>, <<>>, TString)>>)
        EXCEPT !.textUnmarshaler = TRUE]

\* fragments of one shared secret, bare and through a scheme
RecShared ==
    StructOf(<<"S","h","a","r","e","d">>,
        <<StructField(<<"A">>, <<<<"s","h","#","a">>>>, TString),
          StructField(<<"B">>, <<<<"s","h","#","b">>>>, TInt),
          StructField(<<"C">>, <<<<"a","w","s",":","/","/","s","h","#","c">>>>, TBool)>>)

\* keys and versions that differ in one component only
RecKeys ==
    StructOf(<<"K","e","y","s">>,
        <<StructField(<<"X">>, <<<<"a","@","p","r","e","v","i","o","u","s">>>>, TString),
          StructField(<<"Y">>, <<<<"a",",","v","e","r","s","i","o","n","=","p","r","e","v","i","o","u","s">>>>, TString),
          StructField(<<"Z">>, <<<<"a">>>>, TString)>>)

RecVersioned ==
    StructOf(<<"R","o","t","a","t","i","n","g">>,
        <<StructField(<<"K">>, <<<<"a">>>>, Versioned(TString)),
          StructField(<<"L">>, <<<<"a",",","v","e","r","s","i","o","n","=","2">>>>, PointerTo(TString))>>)

RecVersionedInt ==
    StructOf(<<"R","o","t","a","t","i","n","g","I","n","t">>,
        <<StructField(<<"V">>, <<<<"a","w","s",":","/","/","k","2",",","o","p","t","i","o","n","a","l">>>>, Versioned(TInt8)),
          StructField(<<"V","2">>, <<<<"a","w","s",":","/","/","k","3">>>>, Versioned(TInt8))>>)

\* defective fields next to a valid one
RecDefects ==
    StructOf(<<"D","e","f","e","c","t","s">>,
        <<StructField(<<"B","a","d">>, <<<<"k","1",",","b","o","g","u","s">>>>, TString),
          StructField(<<"U">>, <<<<"g","c","p",":","/","/","k","1">>>>, TString),
          StructField(<<"C","x">>, <<<<"k","2">>>>, TComplex),
          StructField(<<"O","k">>, <<<<"k","1">>>>, TBytes)>>)

\* defective fields only
RecBroken ==
    StructOf(<<"B","r","o","k","e","n">>,
        <<StructField(<<"E">>, <<<<>>>>, TString),
          StructField(<<"F">>, <<<<"a","w","s",":","/","/">>>>, TString),
          StructField(<<"G">>, <<<<",","o","p","t","i","o","n","a","l">>>>, TString),
          StructField(<<"M">>, <<<<"g","c","p",":","/","/","k","2">>>>, TMap)>>)

RecOptional ==
    StructOf(<<"O","p","t","i","o","n","a","l">>,
        <<StructField(<<"O","1">>, <<<<"k","2",",","o","p","t","i","o","n","a","l">>>>, TString),
          StructField(<<"O","2">>, <<<<"n","k",",","o","p","t","i","o","n","a","l">>>>, PointerTo(TString)),
          StructField(<<"O","3">>, <<<<"k","2">>>>, TInt8),
          StructField(<<"O","4">>, <<<<"k","2",",","o","p","t","i","o","n","a","l">>>>, TMap),
          StructField(<<"N">>, <<>>, TInt)>>)

Inner ==
    StructOf(<<"I","n","n","e","r">>,
        <<StructField(<<"K","e","y">>, <<<<"k","1">>>>, TCustomText),
          StructField(<<"h","i","d","d","e","n">>, <<<<"k","2">>>>, TString)>>)

Plain == StructOf(<<"P","l","a","i","n">>, <<StructField(<<"N">>, <<>>, TInt)>>)

Base == StructOf(<<"B","a","s","e">>, <<StructField(<<"I","d">>, <<<<"k","2">>>>, TInt)>>)

RecNested ==
    StructOf(<<"N","e","s","t","e","d">>,
        <<StructField(<<"P","o","r","t">>, <<>>, TInt),
          StructField(<<"I","n">>, <<>>, PointerTo(Inner)),
          StructField(<<"P","l">>, <<>>, PointerTo(Plain)),
          Embedded(Base),
          StructField(<<"L","a","s","t">>, <<<<"n","k">>>>, TString)>>)

\* a bare key, a version through a scheme and a version of a bare key
RecRouted ==
    StructOf(<<"R","o","u","t","e","d">>,
        <<StructField(<<"G">>, <<<<"k","1">>>>, TString),
          StructField(<<"V">>, <<<<"a","w","s",":","/","/","k","2",",","v","e","r","s","i","o","n","=","p","r","e","v","i","o","u","s">>>>, TString),
          StructField(<<"U">>, <<<<"k","2",",","v","e","r","s","i","o","n","=","p","r","e","v","i","o","u","s">>>>, TString)>>)

Records ==
    {RecShared, RecKeys, RecVersioned, RecVersionedInt, RecDefects, RecBroken,
     RecOptional, RecNested, RecRouted}

\* a record whose fields were set before Resolve is called
RECURSIVE Populated(_)
Populated(t) ==
    CASE t.kind \in {"string", "slice"} -> <<"o","l","d">>
      [] t.kind = "ptr" -> <<Populated(t.elem[1])>>
      [] t.kind = "map" -> <<>>
      [] t.kind = "bool" -> TRUE
      [] t.kind = "struct" -> [i \in 1..Len(t.fields) |-> Populated(t.fields[i].Type)]
      [] OTHER -> 7

P1 == [id |-> "p1", versioned |-> TRUE, closer |-> FALSE]

P2 == [id |-> "p2", versioned |-> FALSE, closer |-> FALSE]

\* provider instances with a Close method
Q1 == [id |-> "q1", versioned |-> FALSE, closer |-> TRUE]

Q2 == [id |-> "q2", versioned |-> TRUE, closer |-> TRUE]

ProviderIds == {"p1", "p2", "q1", "q2"}

\* the largest value given to WithParallelism
MaxParallelism == 2

DefaultParallelism == 10

\* the parallelism option: <<>> when not given, <<n>> for WithParallelism(n)
ParallelismOptions == {<<>>} \cup {<<n>> : n \in (0 - 1)..MaxParallelism}

Option(c, opt) == IF opt = <<>> THEN c ELSE WithParallelism(c, opt[1])

\* the provider bindings: one instance as default and under a scheme, two
\* instances, and no default provider
Bindings ==
    {WithProvider(WithDefault(ZeroConfig, P1), <<"a","w","s">>, P1),
     WithProvider(WithDefault(ZeroConfig, P2), <<"a","w","s">>, P1),
     WithProvider(ZeroConfig, <<"a","w","s">>, P2)}

EmptyStore == [data |-> <<>>, versions |-> <<>>, failing |-> {}]

\* every secret present and well-formed
StoreFull ==
    [data |-> (<<"k","1">> :> <<"v","1">>) @@ (<<"k","2">> :> <<" ","4","2">>) @@ (<<"a">> :> <<"c","u","r">>)
              @@ (<<"a","@","p","r","e","v","i","o","u","s">> :> <<"a","t">>)
              @@ (<<"s","h">> :> <<"{","\"","a","\"",":","\"","x","\"",",","\"","b","\"",":","5",",","\"","c","\"",":","t","r","u","e","}">>),
     versions |-> (<<<<"a">>, <<"p","r","e","v","i","o","u","s">>>> :> <<"o","l","d">>) @@ (<<<<"a">>, <<"2">>>> :> <<"t","w","o">>)
                  @@ (<<<<"k","2">>, <<"p","r","e","v","i","o","u","s">>>> :> <<"4","1">>),
     failing |-> {}]

\* secrets missing, no previous versions
StoreSparse ==
    [data |-> (<<"k","1">> :> <<"v","1">>) @@ (<<"a">> :> <<"c","u","r">>) @@ (<<"a","@","p","r","e","v","i","o","u","s">> :> <<"a","t">>)
              @@ (<<"k","3">> :> <<"5">>) @@ (<<"s","h">> :> <<"{","\"","a","\"",":","\"","x","\"",",","\"","b","\"",":","5","}">>),
     versions |-> <<>>,
     failing |-> {}]

\* unreadable and ill-formed secrets
StoreBad ==
    [data |-> (<<"k","2">> :> <<"3","0","0">>) @@ (<<"k","3">> :> <<"7">>) @@ (<<"a">> :> <<"c","u","r">>)
              @@ (<<"s","h">> :> <<"{","\"","a","\"",":","1">>),
     versions |-> (<<<<"a">>, <<"p","r","e","v","i","o","u","s">>>> :> <<"o","l","d">>) @@ (<<<<"k","2">>, <<"p","r","e","v","i","o","u","s">>>> :> <<"x">>)
                  @@ (<<<<"k","3">>, <<"p","r","e","v","i","o","u","s">>>> :> <<"x">>),
     failing |-> {<<"k","1">>}]

\* the secrets held by the two provider instances
Backends ==
    {[p1 |-> StoreFull, p2 |-> StoreSparse],
     [p1 |-> StoreSparse, p2 |-> StoreBad],
     [p1 |-> StoreBad, p2 |-> StoreFull]}

(***************************************************************************)
(* The state of one Validate call followed by one Resolve call             *)
(***************************************************************************)
VARIABLES
    parOpt,       \* the parallelism option the resolver was built with
    cfg,          \* resolverConfig of the resolver
    backend,      \* provider id -> the secrets of that provider
    rtype,        \* the type of the record passed to Validate and Resolve
    dst0,         \* the record as it was when Resolve was called
    dst,          \* the record
    pc,           \* "new", "ready", "fetch", "assign", "return", "done"
    validateErr,  \* the error returned by Validate
    fields,       \* Resolve: the collected fieldInfos
    collectErrs,  \* Resolve: the errors of the walker
    specs,        \* Resolve: the plan, a sequence of fetchSpecs
    gpc,          \* per plan entry, the position of its goroutine
    sem,          \* number of tokens in the semaphore channel
    results,      \* Resolve: fetchKey.String() -> fetchResult
    calls,        \* the bag of provider calls made so far
    next,         \* Resolve: index of the next field to assign
    assigned,     \* the fields whose assignment step ran, in order
    assignErrs,   \* Resolve: the errors of the assignment loop
    ret           \* the error returned by Resolve

resolveVars ==
    <<parOpt, cfg, backend, rtype, dst0, dst, pc, validateErr, fields, collectErrs,
      specs, gpc, sem, results, calls, next, assigned, assignErrs, ret>>

(***************************************************************************)
(* The state of one Close call                                             *)
(***************************************************************************)
VARIABLES
    closeFails,   \* the provider instances whose Close returns an error
    cpc,          \* "idle", "start", "range", "done"
    seen,         \* closeProviders: the seen map, as the set of its keys
    pending,      \* closeProviders: the schemes the range loop has yet to visit
    closed,       \* provider instance -> the number of Close calls made on it
    closeErrs,    \* closeProviders: errs
    closeRet      \* the error returned by Close

closeVars == <<closeFails, cpc, seen, pending, closed, closeErrs, closeRet>>

(***************************************************************************)
(* The state of one CachedProvider and of the call under way on it         *)
(***************************************************************************)
VARIABLES
    now,          \* time.Now(), in ticks
    ttl,          \* CachedProvider.ttl, in ticks
    wrapped,      \* CachedProvider.provider
    kstore,       \* the secrets of the wrapped provider
    entries,      \* CachedProvider.entries: cache key -> [data, expires]
    kpc,          \* "idle", "call" (after a miss), "set" (after the call)
    kreq,         \* the call under way: [method, key, version]
    kdata,        \* the bytes the wrapped provider returned
    kret,         \* what the last call returned: [data, err]
    kcalls,       \* calls of the wrapped provider made by the call under way
    klog,         \* the last step of a call: [kind, key, had, expires, at, data]
    kok,          \* cache keys for which a call of the wrapped provider succeeded
    kfailed,      \* cache keys whose latest call of the wrapped provider failed
    kowner,       \* cache key -> the call [method, key, version] that stored the entry
    kinflight,    \* Clear ran while the call under way was past its c.get
    kstale        \* cache keys whose entry was stored by such a call

cacheVars ==
    <<now, ttl, wrapped, kstore, entries, kpc, kreq, kdata, kret, kcalls, klog, kok,
      kfailed, kowner, kinflight, kstale>>

(***************************************************************************)
(* The state of one Watcher, of its poll loop and of the goroutines that   *)
(* use it                                                                  *)
(***************************************************************************)
VARIABLES
    wpc,          \* Watch and pollLoop: "off", "new", "failed", "select", "lock",
                  \* "copy", "emit", "closing", "closed", "exited"
    watchErr,     \* the error returned by Watch
    snapshot,     \* pollLoop: snapshot
    tmp,          \* poll: the temporary copy
    newSnapshot,  \* poll: newSnapshot
    events,       \* poll: events
    dstFields,    \* poll: dstFields
    tmpFields,    \* poll: tmpFields
    ci,           \* poll: index of the next field to copy
    ei,           \* poll: index of the next event to emit
    changes,      \* Watcher.changes: the events in the channel's buffer
    changesClosed,\* the number of close calls made on Watcher.changes
    stopCh,       \* Watcher.stop is closed
    doneCh,       \* Watcher.done is closed
    ctxDone,      \* the context passed to Watch is cancelled
    mu,           \* Watcher.mu: [writer, readers]
    rseen,        \* reader -> the record it read when it acquired the read lock
    spc,          \* the goroutine calling Stop: "idle", "waiting", "returned"
    received,     \* the consumer: the event received last from Changes()
    rclosed,      \* the consumer saw Changes() closed
    cycle,        \* the number of poll cycles started
    cycleLog,     \* the last poll cycle: [old, new, failed, offered, sent, full, skipped,
                  \* store, base]
    committed,    \* the record as the last completed write left it
    wroteCycle,   \* the cycle of the last completed write, 0 for Watch
    chanCycle,    \* per event in the buffer, the cycle that sent it
    recvCycle,    \* the cycle of the event the consumer received last
    elog,         \* the last send on changes: [full, before, event, after]
    stpc,         \* per goroutine calling Stop: "idle", "default", "waiting", "returned"
    stopCloses    \* the number of close calls made on Watcher.stop

\* the goroutines that call Stop side by side
stopVars == <<stpc, stopCloses>>

watchVars ==
    <<wpc, watchErr, snapshot, tmp, newSnapshot, events, dstFields, tmpFields, ci, ei,
      changes, changesClosed, stopCh, doneCh, ctxDone, mu, rseen, spc, received,
      rclosed, cycle, cycleLog, committed, wroteCycle, chanCycle, recvCycle, elog,
      stopVars>>

(***************************************************************************)
(* The state of one parseTag call on a tag put together from parts         *)
(***************************************************************************)
VARIABLES
    tagParts,     \* the parts of the tag, in order
    tagRet,       \* what parseTag returned: [t, err]
    tpc           \* "off", "input", "parsed"

tagVars == <<tagParts, tagRet, tpc>>

vars == <<resolveVars, closeVars, cacheVars, watchVars, tagVars>>


\* no Close call is under way
CloseIdle ==
    /\ closeFails = {}
    /\ cpc = "idle"
    /\ seen = {}
    /\ pending = {}
    /\ closed = [id \in ProviderIds |-> 0]
    /\ closeErrs = <<>>
    /\ closeRet = NilError

NoRequest == [method |-> "none", key |-> <<>>, version |-> <<>>]

NoStep == [kind |-> "none", key |-> <<>>, had |-> FALSE, expires |-> 0, at |-> 0,
           data |-> <<>>]

\* no CachedProvider is in use
CacheIdle ==
    /\ now = 0
    /\ ttl = 0
    /\ wrapped = NoProvider
    /\ kstore = EmptyStore
    /\ entries = <<>>
    /\ kpc = "off"
    /\ kreq = NoRequest
    /\ kdata = <<>>
    /\ kret = [data |-> <<>>, err |-> NilError]
    /\ kcalls = 0
    /\ klog = NoStep
    /\ kok = {}
    /\ kfailed = {}
    /\ kowner = <<>>
    /\ kinflight = FALSE
    /\ kstale = {}

\* the goroutines that read the record under the read lock
Readers == {"r1", "r2"}

NoCycle ==
    [old |-> <<>>, new |-> <<>>, failed |-> FALSE, offered |-> <<>>, sent |-> <<>>,
     full |-> <<>>, skipped |-> 0, store |-> <<>>, base |-> <<>>]

NoSend == [full |-> FALSE, before |-> <<>>, event |-> <<>>, after |-> <<>>]

\* no tag is being parsed
TagIdle ==
    /\ tagParts = <<>>
    /\ tagRet = [t |-> ZeroTag, err |-> NilError]
    /\ tpc = "off"

\* the goroutines that call Stop side by side
Stoppers == {"s1", "s2"}

\* no goroutine has called Stop side by side with another
StopIdle ==
    /\ stpc = [g \in Stoppers |-> "idle"]
    /\ stopCloses = 0

\* no Watcher exists
WatchIdle ==
    /\ StopIdle
    /\ wpc = "off"
    /\ watchErr = NilError
    /\ snapshot = <<>>
    /\ tmp = <<>>
    /\ newSnapshot = <<>>
    /\ events = <<>>
    /\ dstFields = <<>>
    /\ tmpFields = <<>>
    /\ ci = 1
    /\ ei = 1
    /\ changes = <<>>
    /\ changesClosed = 0
    /\ stopCh = FALSE
    /\ doneCh = FALSE
    /\ ctxDone = FALSE
    /\ mu = [writer |-> FALSE, readers |-> {}]
    /\ rseen = [r \in Readers |-> <<>>]
    /\ spc = "idle"
    /\ received = <<>>
    /\ rclosed = FALSE
    /\ cycle = 0
    /\ cycleLog = NoCycle
    /\ committed = <<>>
    /\ wroteCycle = 0
    /\ chanCycle = <<>>
    /\ recvCycle = 0
    /\ elog = NoSend

Init ==
    /\ parOpt \in ParallelismOptions
    /\ \E b \in Bindings : cfg = NewResolver(Option(b, parOpt))
    /\ backend \in Backends
    /\ rtype \in Records
    /\ dst0 \in {Zero(rtype), Populated(rtype)}
    /\ dst = dst0
    /\ pc = "new"
    /\ validateErr = NilError
    /\ fields = <<>>
    /\ collectErrs = <<>>
    /\ specs = <<>>
    /\ gpc = <<>>
    /\ sem = 0
    /\ results = <<>>
    /\ calls = EmptyBag
    /\ next = 1
    /\ assigned = <<>>
    /\ assignErrs = <<>>
    /\ ret = NilError
    /\ CloseIdle
    /\ CacheIdle
    /\ WatchIdle
    /\ TagIdle

\* r.Validate(&dst)
DoValidate ==
    /\ pc = "new"
    /\ validateErr' = Validate(cfg, rtype)
    /\ pc' = "ready"
    /\ UNCHANGED <<closeVars, cacheVars, watchVars, tagVars>>
    /\ UNCHANGED <<parOpt, cfg, backend, rtype, dst0, dst, fields, collectErrs, specs,
                   gpc, sem, results, calls, next, assigned, assignErrs, ret>>

\* Resolve after the walker returned c = [fields, errs, root], with the plan
Planned(c, plan) ==
    /\ dst' = c.root
    /\ fields' = c.fields
    /\ collectErrs' = c.errs
    /\ IF Len(c.errs) > 0 /\ Len(c.fields) = 0
          THEN /\ ret' = Join(c.errs)
               /\ pc' = "done"
               /\ UNCHANGED <<specs, gpc>>
          ELSE /\ specs' = plan.specs
               /\ gpc' = [i \in 1..Len(plan.specs) |-> "spawned"]
               /\ pc' = "fetch"
               /\ ret' = ret

\* Resolve after the walker returned c
Collected(c) == Planned(c, buildPlan(c.fields, 1, [seen |-> {}, specs |-> <<>>]))

\* Resolve up to the start of the goroutines: the walker, the early return
\* when it found errors and no field, the plan
ResolveCollect ==
    /\ pc = "ready"
    /\ Collected(collectFields(cfg, rtype, <<>>,
                               [fields |-> <<>>, errs |-> <<>>, root |-> dst]))
    /\ UNCHANGED <<closeVars, cacheVars, watchVars, tagVars>>
    /\ UNCHANGED <<parOpt, cfg, backend, rtype, dst0, validateErr, sem, results, calls,
                   next, assigned, assignErrs>>

\* sem <- struct{}{}
Acquire(i) ==
    /\ pc = "fetch"
    /\ gpc[i] = "spawned"
    /\ sem < cfg.parallelism
    /\ sem' = sem + 1
    /\ gpc' = [gpc EXCEPT ![i] = "acquired"]
    /\ UNCHANGED <<closeVars, cacheVars, watchVars, tagVars>>
    /\ UNCHANGED <<parOpt, cfg, backend, rtype, dst0, dst, pc, validateErr, fields,
                   collectErrs, specs, results, calls, next, assigned, assignErrs, ret>>

\* results[spec.key.String()] = &fetchResult{...}, under mu
store(spec, r) ==
    [k \in DOMAIN results \cup {String(spec.key)} |->
        IF k = String(spec.key) THEN r ELSE results[k]]

\* a dispatch that calls Get whatever the version of the entry
providerCall_AlwaysGet(spec) ==
    [provider |-> spec.fi.provider.id,
     method   |-> "Get",
     key      |-> spec.fi.tag.Key,
     version  |-> spec.version]

\* the call of the goroutine: provider.Get(ctx, key), or GetVersion(ctx, key,
\* version) for an entry with a version
providerCall(spec) ==
    [provider |-> spec.fi.provider.id,
     method   |-> IF spec.version # <<>> THEN "GetVersion" ELSE "Get",
     key      |-> spec.fi.tag.Key,
     version  |-> spec.version]

\* the goroutine selects the entry point: it fails the entry when a version is
\* asked of a provider without GetVersion, and calls the provider otherwise
Dispatch(i) ==
    /\ pc = "fetch"
    /\ gpc[i] = "acquired"
    /\ LET spec == specs[i]
       IN  IF spec.version # <<>> /\ ~spec.fi.provider.versioned
              THEN /\ results' = store(spec,
                          [data |-> <<>>,
                           err |-> ErrVersioningNotSupported(spec.fi.fieldName,
                                                             spec.fi.providerName)])
                   /\ gpc' = [gpc EXCEPT ![i] = "stored"]
                   /\ calls' = calls
              ELSE /\ calls' = calls (+) SetToBag({providerCall(spec)})
                   /\ gpc' = [gpc EXCEPT ![i] = "calling"]
                   /\ results' = results
    /\ UNCHANGED <<closeVars, cacheVars, watchVars, tagVars>>
    /\ UNCHANGED <<parOpt, cfg, backend, rtype, dst0, dst, pc, validateErr, fields,
                   collectErrs, specs, sem, next, assigned, assignErrs, ret>>

\* the provider call returns and the goroutine stores the result
ProviderReturn(i) ==
    /\ pc = "fetch"
    /\ gpc[i] = "calling"
    /\ LET spec == specs[i]
           s    == backend[spec.fi.provider.id]
       IN  results' = store(spec,
                IF spec.version # <<>>
                    THEN GetVersion(s, spec.fi.tag.Key, spec.version)
                    ELSE Get(s, spec.fi.tag.Key))
    /\ gpc' = [gpc EXCEPT ![i] = "stored"]
    /\ UNCHANGED <<closeVars, cacheVars, watchVars, tagVars>>
    /\ UNCHANGED <<parOpt, cfg, backend, rtype, dst0, dst, pc, validateErr, fields,
                   collectErrs, specs, sem, calls, next, assigned, assignErrs, ret>>

\* a release that leaves the slot of the semaphore taken
semReceive_Kept(n) == n

\* <-sem: the number of slots taken after the receive
semReceive(n) == n - 1

\* the deferred <-sem and wg.Done()
Release(i) ==
    /\ pc = "fetch"
    /\ gpc[i] = "stored"
    /\ sem' = semReceive(sem)
    /\ gpc' = [gpc EXCEPT ![i] = "done"]
    /\ UNCHANGED <<closeVars, cacheVars, watchVars, tagVars>>
    /\ UNCHANGED <<parOpt, cfg, backend, rtype, dst0, dst, pc, validateErr, fields,
                   collectErrs, specs, results, calls, next, assigned, assignErrs, ret>>

\* wg.Wait() returns
Wait ==
    /\ pc = "fetch"
    /\ \A i \in 1..Len(specs) : gpc[i] = "done"
    /\ pc' = "assign"
    /\ UNCHANGED <<closeVars, cacheVars, watchVars, tagVars>>
    /\ UNCHANGED <<parOpt, cfg, backend, rtype, dst0, dst, validateErr, fields,
                   collectErrs, specs, gpc, sem, results, calls, next, assigned,
                   assignErrs, ret>>

\* the outcome a = [root, errs] of one iteration of the assignment loop
Assigned(a) ==
    /\ dst' = a.root
    /\ assignErrs' = assignErrs \o a.errs

\* one iteration of the assignment loop
Assign ==
    /\ pc = "assign"
    /\ next <= Len(fields)
    /\ Assigned(assignField(fields[next], results, dst))
    /\ assigned' = Append(assigned, fields[next].fieldName)
    /\ next' = next + 1
    /\ UNCHANGED <<closeVars, cacheVars, watchVars, tagVars>>
    /\ UNCHANGED <<parOpt, cfg, backend, rtype, dst0, pc, validateErr, fields,
                   collectErrs, specs, gpc, sem, results, calls, ret>>

\* return errors.Join(allErrs...)
ResolveReturn ==
    /\ pc = "assign"
    /\ next > Len(fields)
    /\ ret' = Join(collectErrs \o assignErrs)
    /\ pc' = "done"
    /\ UNCHANGED <<closeVars, cacheVars, watchVars, tagVars>>
    /\ UNCHANGED <<parOpt, cfg, backend, rtype, dst0, dst, validateErr, fields,
                   collectErrs, specs, gpc, sem, results, calls, next, assigned,
                   assignErrs>>

Next ==
    \/ DoValidate
    \/ ResolveCollect
    \/ \E i \in 1..Len(specs) : Acquire(i)
    \/ \E i \in 1..Len(specs) : Dispatch(i)
    \/ \E i \in 1..Len(specs) : ProviderReturn(i)
    \/ \E i \in 1..Len(specs) : Release(i)
    \/ Wait
    \/ Assign
    \/ ResolveReturn

Spec == Init /\ [][Next]_vars

\* the steps of the goroutines of the fetch phase
GoroutineStep ==
    \/ \E i \in 1..Len(specs) : Acquire(i)
    \/ \E i \in 1..Len(specs) : Dispatch(i)
    \/ \E i \in 1..Len(specs) : ProviderReturn(i)
    \/ \E i \in 1..Len(specs) : Release(i)

\* the steps of the goroutine that called Resolve, once the plan is made
ResolveStep == Wait \/ Assign \/ ResolveReturn

\* Resolve of an empty record with a chosen parallelism, the default provider
\* and the scheme both bound to the first provider
InitLive ==
    /\ Init
    /\ parOpt \in {<<n>> : n \in 1..MaxParallelism}
    /\ cfg.defaultProvider = P1
    /\ backend.p1 = StoreFull
    /\ rtype \in {RecKeys, RecVersioned, RecVersionedInt, RecRouted}
    /\ dst0 = Zero(rtype)

\* Resolve under the scheduler of the Go runtime, with providers whose calls
\* return: a goroutine that can run does run, a send on the semaphore goes
\* through when a slot is free
SpecLive ==
    /\ InitLive
    /\ [][Next]_vars
    /\ WF_vars(GoroutineStep)
    /\ WF_vars(ResolveStep)

(***************************************************************************)
(* Close: closeProviders over the default and the scheme-bound providers   *)
(***************************************************************************)
\* the error a failing Close method returns
CloseFailure(id) == errorString(<<"c","l","o","s","e"," ">> \o (IF id = "q1" THEN <<"q","1">> ELSE <<"q","2">>) \o <<":"," ","f","a","i","l","e","d">>)

\* c.Close() and the append of its error; st = [seen, closed, errs]
closeCall(st, p, fails) ==
    [st EXCEPT !.closed[p.id] = @ + 1,
               !.errs = IF p.id \in fails THEN Append(@, CloseFailure(p.id)) ELSE @]

\* closeProviders, the step for the default provider
closeDefault_Twice(st, p, fails) ==
    IF p # NoProvider /\ p.closer THEN closeCall(st, p, fails) ELSE st

closeDefault(st, p, fails) ==
    IF p # NoProvider /\ p.closer
        THEN closeCall([st EXCEPT !.seen = @ \cup {p.id}], p, fails)
        ELSE st

\* closeProviders, the body of the range loop for the provider of one scheme
closeRanged(st, p, fails) ==
    IF p.id \in st.seen THEN st
    ELSE LET s1 == [st EXCEPT !.seen = @ \cup {p.id}]
         IN  IF p.closer THEN closeCall(s1, p, fails) ELSE s1

CloseSchemes == {<<"a","w","s">>, <<"g","c","p">>}

Bind(c, scheme, p) == IF p = NoProvider THEN c ELSE WithProvider(c, scheme, p)

\* the resolvers that are closed: any of four instances or none as default
\* and under each scheme
CloseConfigs ==
    {NewResolver(Bind(Bind(WithDefault(ZeroConfig, d), <<"a","w","s">>, a), <<"g","c","p">>, g)) :
        d \in {NoProvider, P1, Q1, Q2}, a \in {NoProvider, P1, Q1, Q2},
        g \in {NoProvider, P1, Q1, Q2}}

InitClose ==
    /\ parOpt = <<>>
    /\ cfg \in CloseConfigs
    /\ backend = [p1 |-> EmptyStore, p2 |-> EmptyStore]
    /\ rtype = RecShared
    /\ dst0 = Zero(RecShared)
    /\ dst = dst0
    /\ pc = "closing"
    /\ validateErr = NilError
    /\ fields = <<>>
    /\ collectErrs = <<>>
    /\ specs = <<>>
    /\ gpc = <<>>
    /\ sem = 0
    /\ results = <<>>
    /\ calls = EmptyBag
    /\ next = 1
    /\ assigned = <<>>
    /\ assignErrs = <<>>
    /\ ret = NilError
    /\ closeFails \in SUBSET {"q1", "q2"}
    /\ cpc = "start"
    /\ seen = {}
    /\ pending = {}
    /\ closed = [id \in ProviderIds |-> 0]
    /\ closeErrs = <<>>
    /\ closeRet = NilError
    /\ CacheIdle
    /\ WatchIdle
    /\ TagIdle

\* r.Close() up to the range loop: the default provider
CloseDefault ==
    /\ cpc = "start"
    /\ LET st == closeDefault([seen |-> seen, closed |-> closed, errs |-> closeErrs],
                              cfg.defaultProvider, closeFails)
       IN  /\ seen' = st.seen
           /\ closed' = st.closed
           /\ closeErrs' = st.errs
    /\ pending' = DOMAIN cfg.providers
    /\ cpc' = "range"
    /\ UNCHANGED <<resolveVars, cacheVars, watchVars, tagVars, closeFails, closeRet>>

\* one iteration of the range over cfg.providers, in the order the map yields
CloseNext(scheme) ==
    /\ cpc = "range"
    /\ scheme \in pending
    /\ LET st == closeRanged([seen |-> seen, closed |-> closed, errs |-> closeErrs],
                             cfg.providers[scheme], closeFails)
       IN  /\ seen' = st.seen
           /\ closed' = st.closed
           /\ closeErrs' = st.errs
    /\ pending' = pending \ {scheme}
    /\ UNCHANGED <<resolveVars, cacheVars, watchVars, tagVars, closeFails, cpc, closeRet>>

\* return errors.Join(errs...)
CloseReturn ==
    /\ cpc = "range"
    /\ pending = {}
    /\ closeRet' = Join(closeErrs)
    /\ cpc' = "done"
    /\ UNCHANGED <<resolveVars, cacheVars, watchVars, tagVars, closeFails, seen, pending, closed, closeErrs>>

NextClose ==
    \/ CloseDefault
    \/ \E scheme \in CloseSchemes : CloseNext(scheme)
    \/ CloseReturn

SpecClose == InitClose /\ [][NextClose]_vars

(***************************************************************************)
(* CachedProvider: Get, GetVersion and Clear on one cached provider, one   *)
(* call after the other, while time passes and the secrets of the wrapped  *)
(* provider change                                                         *)
(***************************************************************************)
\* no Validate or Resolve call is under way
ResolveIdle ==
    /\ parOpt = <<>>
    /\ cfg = NewResolver(ZeroConfig)
    /\ backend = [p1 |-> EmptyStore, p2 |-> EmptyStore]
    /\ rtype = RecShared
    /\ dst0 = Zero(RecShared)
    /\ dst = dst0
    /\ pc = "idle"
    /\ validateErr = NilError
    /\ fields = <<>>
    /\ collectErrs = <<>>
    /\ specs = <<>>
    /\ gpc = <<>>
    /\ sem = 0
    /\ results = <<>>
    /\ calls = EmptyBag
    /\ next = 1
    /\ assigned = <<>>
    /\ assignErrs = <<>>
    /\ ret = NilError

\* the last tick of the clock
MaxTime == 3

\* the values of ttl
TTLs == {0, 1}

\* the byte "\x00"; it is no character of a key or of a version
NUL == "NUL"

\* cacheKey := key + "\x00" + version
cacheKey(key, version) == key \o <<NUL>> \o version

\* the cache key of a call
keyOf(req) == IF req.method = "Get" THEN req.key ELSE cacheKey(req.key, req.version)

\* CachedProvider.get at time t: the entry is fresh unless t is after expires
cacheGet(ents, key, t) ==
    IF key \notin DOMAIN ents \/ t > ents[key].expires
        THEN [data |-> <<>>, ok |-> FALSE]
        ELSE [data |-> ents[key].data, ok |-> TRUE]

\* CachedProvider.set at time t
cacheSet(ents, key, data, t) ==
    [k \in DOMAIN ents \cup {key} |->
        IF k = key THEN [data |-> data, expires |-> t + ttl] ELSE ents[k]]

\* the step of a call recorded in klog
Step(kind, key, data) ==
    [kind |-> kind, key |-> key, had |-> key \in DOMAIN entries,
     expires |-> IF key \in DOMAIN entries THEN entries[key].expires ELSE 0,
     at |-> now, data |-> data]

\* Get and GetVersion after c.get returned hit = [data, ok]
Looked(key, hit) ==
    /\ klog' = Step(IF hit.ok THEN "hit" ELSE "miss", key, hit.data)
    /\ kcalls' = 0
    /\ IF hit.ok
          THEN /\ kret' = [data |-> hit.data, err |-> NilError]
               /\ kpc' = "idle"
          ELSE /\ kret' = kret
               /\ kpc' = "call"
    /\ UNCHANGED <<now, ttl, wrapped, kstore, entries, kdata, kok, kfailed, kowner,
                   kinflight, kstale>>

\* CachedProvider.Get up to the return of c.get
CachedGet(key) ==
    /\ kpc = "idle"
    /\ kreq' = [method |-> "Get", key |-> key, version |-> <<>>]
    /\ Looked(key, cacheGet(entries, key, now))
    /\ UNCHANGED <<resolveVars, closeVars, watchVars, tagVars>>

\* CachedProvider.GetVersion up to the return of c.get
CachedGetVersion(key, version) ==
    /\ kpc = "idle"
    /\ kreq' = [method |-> "GetVersion", key |-> key, version |-> version]
    /\ IF ~wrapped.versioned
          THEN /\ kret' = [data |-> <<>>,
                           err |-> ErrVersioningNotSupported(<<>>, <<"c","a","c","h","e","d">>)]
               /\ klog' = Step("unsupported", cacheKey(key, version), <<>>)
               /\ kcalls' = 0
               /\ UNCHANGED <<now, ttl, wrapped, kstore, entries, kpc, kdata, kok,
                              kfailed, kowner, kinflight, kstale>>
          ELSE Looked(cacheKey(key, version),
                      cacheGet(entries, cacheKey(key, version), now))
    /\ UNCHANGED <<resolveVars, closeVars, watchVars, tagVars>>

\* afterCall where the outcome of the call always goes on to c.set
afterCall_CacheErrors(r) == "set"

\* where a call goes on after the wrapped provider returned r = [data, err]:
\* it returns the error, or goes on to c.set
afterCall(r) == IF r.err # NilError THEN "idle" ELSE "set"

\* Get and GetVersion after the wrapped provider returned r = [data, err]
Called(key, r) ==
    /\ kcalls' = kcalls + 1
    /\ klog' = Step(IF r.err # NilError THEN "fail" ELSE "ok", key, r.data)
    /\ kok' = IF r.err # NilError THEN kok ELSE kok \cup {key}
    /\ kfailed' = IF r.err # NilError THEN kfailed \cup {key} ELSE kfailed \ {key}
    /\ kpc' = afterCall(r)
    /\ IF afterCall(r) = "idle"
          THEN /\ kret' = [data |-> <<>>, err |-> r.err]
               /\ kdata' = kdata
          ELSE /\ kret' = kret
               /\ kdata' = r.data
    /\ kinflight' = (kinflight /\ afterCall(r) # "idle")
    /\ UNCHANGED <<now, ttl, wrapped, kstore, entries, kreq, kowner, kstale>>

\* c.provider.Get or vp.GetVersion returns
CachedCall ==
    /\ kpc = "call"
    /\ Called(keyOf(kreq),
              IF kreq.method = "Get" THEN Get(kstore, kreq.key)
              ELSE GetVersion(kstore, kreq.key, kreq.version))
    /\ UNCHANGED <<resolveVars, closeVars, watchVars, tagVars>>

\* c.set and the return of the data
CachedSet ==
    /\ kpc = "set"
    /\ entries' = cacheSet(entries, keyOf(kreq), kdata, now)
    /\ klog' = [Step("store", keyOf(kreq), kdata) EXCEPT !.expires = now + ttl]
    /\ kret' = [data |-> kdata, err |-> NilError]
    /\ kpc' = "idle"
    /\ kowner' = [k \in DOMAIN kowner \cup {keyOf(kreq)} |->
                     IF k = keyOf(kreq) THEN kreq ELSE kowner[k]]
    /\ kstale' = IF kinflight THEN kstale \cup {keyOf(kreq)} ELSE kstale \ {keyOf(kreq)}
    /\ kinflight' = FALSE
    /\ UNCHANGED <<now, ttl, wrapped, kstore, kreq, kdata, kcalls, kok, kfailed>>
    /\ UNCHANGED <<resolveVars, closeVars, watchVars, tagVars>>

\* CachedProvider.Clear
CachedClear ==
    /\ kpc # "off"
    /\ entries # <<>> \/ (kpc # "idle" /\ ~kinflight)
    /\ entries' = <<>>
    /\ klog' = Step("clear", <<>>, <<>>)
    /\ kowner' = <<>>
    /\ kstale' = {}
    /\ kinflight' = (kpc # "idle")
    /\ UNCHANGED <<now, ttl, wrapped, kstore, kpc, kreq, kdata, kret, kcalls, kok,
                   kfailed>>
    /\ UNCHANGED <<resolveVars, closeVars, watchVars, tagVars>>

\* the clock advances
Tick ==
    /\ kpc # "off"
    /\ now < MaxTime
    /\ now' = now + 1
    /\ UNCHANGED <<ttl, wrapped, kstore, entries, kpc, kreq, kdata, kret, kcalls, klog,
                   kok, kfailed, kowner, kinflight, kstale>>
    /\ UNCHANGED <<resolveVars, closeVars, watchVars, tagVars>>

\* the secrets the wrapped provider can hold
CacheStores == {StoreFull, StoreSparse, StoreBad}

\* the secrets of the wrapped provider change
Rotate(s) ==
    /\ kpc # "off"
    /\ s # kstore
    /\ kstore' = s
    /\ UNCHANGED <<now, ttl, wrapped, entries, kpc, kreq, kdata, kret, kcalls, klog,
                   kok, kfailed, kowner, kinflight, kstale>>
    /\ UNCHANGED <<resolveVars, closeVars, watchVars, tagVars>>

\* the keys and the versions the calls ask for
CacheKeys == {<<"k","2">>, cacheKey(<<"k","2">>, <<"p","r","e","v","i","o","u","s">>)}

CacheVersions == {<<"p","r","e","v","i","o","u","s">>}

InitCache ==
    /\ ResolveIdle
    /\ CloseIdle
    /\ WatchIdle
    /\ TagIdle
    /\ now = 0
    /\ ttl \in TTLs
    /\ wrapped \in {P1, P2}
    /\ kstore \in CacheStores
    /\ entries = <<>>
    /\ kpc = "idle"
    /\ kreq = NoRequest
    /\ kdata = <<>>
    /\ kret = [data |-> <<>>, err |-> NilError]
    /\ kcalls = 0
    /\ klog = NoStep
    /\ kok = {}
    /\ kfailed = {}
    /\ kowner = <<>>
    /\ kinflight = FALSE
    /\ kstale = {}

NextCache ==
    \/ \E key \in CacheKeys : CachedGet(key)
    \/ \E key \in CacheKeys : \E version \in CacheVersions : CachedGetVersion(key, version)
    \/ CachedCall
    \/ CachedSet
    \/ CachedClear
    \/ Tick
    \/ \E s \in CacheStores : Rotate(s)

SpecCache == InitCache /\ [][NextCache]_vars

(***************************************************************************)
(* Resolve as one step, as Watch and poll use it: the walker, the plan,    *)
(* every fetch of the plan, the assignment loop                            *)
(***************************************************************************)
\* the goroutine of one plan entry: the result it stores
fetchOne(spec, bk) ==
    IF spec.version # <<>> /\ ~spec.fi.provider.versioned
        THEN [data |-> <<>>,
              err |-> ErrVersioningNotSupported(spec.fi.fieldName, spec.fi.providerName)]
    ELSE IF spec.version # <<>>
        THEN GetVersion(bk[spec.fi.provider.id], spec.fi.tag.Key, spec.version)
    ELSE Get(bk[spec.fi.provider.id], spec.fi.tag.Key)

\* results[spec.key.String()] = &fetchResult{...} on the map res
storeResult(res, spec, r) ==
    [k \in DOMAIN res \cup {String(spec.key)} |->
        IF k = String(spec.key) THEN r ELSE res[k]]

\* the results map after the goroutines of specs[i..] are done
RECURSIVE fetchAll(_, _, _, _)
fetchAll(plan, i, res, bk) ==
    IF i > Len(plan) THEN res
    ELSE fetchAll(plan, i + 1, storeResult(res, plan[i], fetchOne(plan[i], bk)), bk)

\* assignErrs and the record after one more iteration with the outcome a
appendAssigned(acc, a) == [root |-> a.root, errs |-> acc.errs \o a.errs]

\* the assignment loop over fields[i..]
RECURSIVE assignAll(_, _, _, _)
assignAll(fis, i, res, acc) ==
    IF i > Len(fis) THEN acc
    ELSE assignAll(fis, i + 1, res,
                   appendAssigned(acc, assignField(fis[i], res, acc.root)))

\* return errors.Join(allErrs...), with the record as the loop left it
resolveAssigned(c, a) == [root |-> a.root, err |-> Join(c.errs \o a.errs)]

\* Resolve after the walker returned c = [fields, errs, root]
resolveCollected(c, bk) ==
    IF Len(c.errs) > 0 /\ Len(c.fields) = 0
        THEN [root |-> c.root, err |-> Join(c.errs)]
    ELSE resolveAssigned(c,
             assignAll(c.fields, 1,
                       fetchAll(buildPlan(c.fields, 1, [seen |-> {}, specs |-> <<>>]).specs,
                                1, <<>>, bk),
                       [root |-> c.root, errs |-> <<>>]))

\* r.Resolve(ctx, &root) of a resolver with configuration conf on a record of
\* type st, the providers holding bk: the record after it and the error
Resolve(conf, bk, st, root) ==
    resolveCollected(collectFields(conf, st, <<>>,
                                   [fields |-> <<>>, errs |-> <<>>, root |-> root]),
                     bk)

(***************************************************************************)
(* Watcher: Watch, the poll loop, Stop, the context, the consumer of       *)
(* Changes() and the readers of the record, while the secrets change       *)
(***************************************************************************)
\* valueToBytes after the pointer is dereferenced
elemToBytes(v, t) ==
    CASE t.kind = "string" -> v
      [] t.kind = "slice" /\ t.elem[1].kind = "uint8" -> v
      [] t.kind = "bool" -> IF v THEN <<"t","r","u","e">> ELSE <<"f","a","l","s","e">>
      [] t.kind \in {"int", "int8", "int16", "int32", "int64"} -> FormatInt(v)
      [] t.kind \in {"uint", "uint8", "uint16", "uint32", "uint64"} -> FormatUint(v)
      [] OTHER -> <<"<">> \o t.name \o <<" ","V","a","l","u","e",">">>

\* valueToBytes converts a reflect.Value to its byte representation
valueToBytes(v, t) ==
    IF t.kind = "ptr"
        THEN IF v = <<>> THEN <<>> ELSE elemToBytes(v[1], t.elem[1])
        ELSE elemToBytes(v, t)

\* a snapshot of both slots of a Versioned[T]
fieldToBytes_BothSlots(fv, t, isVersioned) ==
    IF isVersioned
        THEN valueToBytes(fv[1], t.fields[1].Type) \o <<",">> \o valueToBytes(fv[2], t.fields[2].Type)
        ELSE valueToBytes(fv, t)

\* fieldToBytes converts a reflect.Value back to bytes for snapshot comparison
fieldToBytes(fv, t, isVersioned) ==
    IF isVersioned THEN valueToBytes(fv[1], t.fields[1].Type) ELSE valueToBytes(fv, t)

\* the fieldSnapshot appended for fi
fieldSnapshot(fi, root) ==
    [fieldName |-> fi.fieldName,
     key |-> fi.tag.Key,
     providerName |-> IF fi.providerName = <<>> THEN fi.tag.Scheme ELSE fi.providerName,
     raw |-> fieldToBytes(GetAt(root, fi.fieldValue), fi.fieldType, fi.isVersioned)]

\* the loop of takeSnapshot over the fields the walker returned
snapshotOf(c) == [i \in 1..Len(c.fields) |-> fieldSnapshot(c.fields[i], c.root)]

\* takeSnapshot collects the current raw bytes for all secret-tagged fields
takeSnapshot(conf, st, root) ==
    snapshotOf(collectFields(conf, st, <<>>,
                             [fields |-> <<>>, errs |-> <<>>, root |-> root]))

\* a ChangeEvent that reports the new bytes as the old value
ChangeEvent_OldFromNew(old, new) ==
    [Field |-> new.fieldName, Key |-> new.key, Provider |-> new.providerName,
     OldValue |-> new.raw, NewValue |-> new.raw]

\* ChangeEvent{...} of poll for an old and a new fieldSnapshot
ChangeEvent(old, new) ==
    [Field |-> new.fieldName, Key |-> new.key, Provider |-> new.providerName,
     OldValue |-> old.raw, NewValue |-> new.raw]

\* poll: the events collected from position i on
RECURSIVE collectEvents(_, _, _, _)
collectEvents(oldSnapshot, new, i, acc) ==
    IF i > Len(new) \/ i > Len(oldSnapshot) THEN acc
    ELSE collectEvents(oldSnapshot, new, i + 1,
                       IF oldSnapshot[i].raw # new[i].raw
                           THEN Append(acc, ChangeEvent(oldSnapshot[i], new[i]))
                           ELSE acc)

\* make(chan ChangeEvent, 64), with a smaller buffer
ChangesCap == 2

\* the largest number of poll cycles
MaxCycles == 2

InnerLive ==
    StructOf(<<"I","n","n","e","r","L","i","v","e">>,
        <<StructField(<<"M","e","m","o">>, <<>>, TInt),
          StructField(<<"P","o","r","t">>, <<<<"a","w","s",":","/","/","k","2">>>>, TInt)>>)

\* a watched record: plain fields, a secret, a nested record behind a pointer
\* and an optional secret
RecLive ==
    StructOf(<<"L","i","v","e">>,
        <<StructField(<<"N","o","t","e">>, <<>>, TString),
          StructField(<<"I","n">>, <<>>, PointerTo(InnerLive)),
          StructField(<<"V","a","l">>, <<<<"k","1">>>>, TString),
          StructField(<<"O","p","t">>, <<<<"k","3",",","o","p","t","i","o","n","a","l">>>>, PointerTo(TString))>>)

WatchRecords == {RecLive}

WatchConfig == NewResolver(WithProvider(WithDefault(ZeroConfig, P1), <<"a","w","s">>, P1))

WatchStore0 ==
    [data |-> (<<"k","1">> :> <<"v","1">>) @@ (<<"k","2">> :> <<"5">>) @@ (<<"k","3">> :> <<"o">>),
     versions |-> <<>>, failing |-> {}]

\* one secret rotated, and the number written with a sign
WatchStore1 == [WatchStore0 EXCEPT !.data[<<"k","1">>] = <<"v","2">>, !.data[<<"k","2">>] = <<"+","5">>]

\* two secrets rotated and the optional one deleted
WatchStore2 ==
    [data |-> (<<"k","1">> :> <<"v","2">>) @@ (<<"k","2">> :> <<"6">>), versions |-> <<>>, failing |-> {}]

\* a secret that Resolve cannot convert
WatchStore3 == [WatchStore0 EXCEPT !.data[<<"k","2">>] = <<"x">>]

WatchStores == {WatchStore0, WatchStore1, WatchStore2, WatchStore3}

\* what the actions of the watcher leave alone in the state of the calls above
resolveCall ==
    <<parOpt, pc, validateErr, fields, collectErrs, specs, gpc, sem, results, calls,
      next, assigned, assignErrs, ret>>

stopFixed == <<resolveCall, cfg, rtype, dst0, closeVars, cacheVars, tagVars>>

watchFixed == <<stopFixed, stopVars>>

pollVars == <<tmp, newSnapshot, events, dstFields, tmpFields, ci, ei>>

chanVars == <<changes, chanCycle, elog>>

lifeVars == <<changesClosed, stopCh, doneCh, ctxDone, spc, watchErr>>

consumerVars == <<received, rclosed, recvCycle>>

\* the log of a cycle that starts: the snapshot it compares with, its new
\* snapshot, the number of failed cycles that precede it without a break, the
\* secrets its Resolve reads and those the last successful Resolve before it read
cycleStart(failed, new) ==
    [old |-> snapshot, new |-> new, failed |-> failed, offered |-> <<>>, sent |-> <<>>,
     full |-> <<>>, skipped |-> IF cycleLog.failed THEN cycleLog.skipped + 1 ELSE 0,
     store |-> backend.p1,
     base |-> IF cycleLog.failed THEN cycleLog.base ELSE cycleLog.store]

\* Watch after the initial Resolve returned r
Watched(r) ==
    /\ dst' = r.root
    /\ watchErr' = r.err
    /\ IF r.err # NilError
           THEN /\ wpc' = "failed"
                /\ UNCHANGED <<snapshot, committed>>
           ELSE /\ wpc' = "select"
                /\ snapshot' = takeSnapshot(cfg, rtype, r.root)
                /\ committed' = r.root
    /\ cycleLog' = [cycleLog EXCEPT !.store = backend.p1]
    /\ UNCHANGED <<pollVars, chanVars, consumerVars, changesClosed, stopCh, doneCh,
                   ctxDone, spc, mu, rseen, cycle, wroteCycle>>
    /\ UNCHANGED <<watchFixed, backend>>

\* Watch starts a Watcher that periodically re-resolves secrets into dst
Watch ==
    /\ wpc = "new"
    /\ Watched(Resolve(cfg, backend, rtype, dst))

\* poll after both walks: the write lock is requested next
Prepared(t, new, evs, ct, cd) ==
    /\ tmp' = ct.root
    /\ dst' = cd.root
    /\ newSnapshot' = new
    /\ events' = evs
    /\ tmpFields' = ct.fields
    /\ dstFields' = cd.fields
    /\ wpc' = "lock"
    /\ cycleLog' = cycleStart(FALSE, new)
    /\ UNCHANGED <<snapshot, ci, ei>>

\* poll after the events were collected
Detected(t, new, evs) ==
    IF Len(evs) > 0
        THEN Prepared(t, new, evs,
                      collectFields(cfg, rtype, <<>>,
                                    [fields |-> <<>>, errs |-> <<>>, root |-> t]),
                      collectFields(cfg, rtype, <<>>,
                                    [fields |-> <<>>, errs |-> <<>>, root |-> dst]))
        ELSE /\ snapshot' = new
             /\ wpc' = "select"
             /\ cycleLog' = cycleStart(FALSE, new)
             /\ UNCHANGED <<pollVars, dst>>

\* poll after the new snapshot was taken
Compared(t, new) == Detected(t, new, collectEvents(snapshot, new, 1, <<>>))

\* a failed cycle that hands the snapshot of the temporary copy to pollLoop
failedSnapshot_Partial(snap, r) == takeSnapshot(cfg, rtype, r.root)

\* the snapshot of pollLoop after poll returned nil for the failed Resolve r
failedSnapshot(snap, r) == snap

\* poll after Resolve into the temporary copy returned r
Polled(r) ==
    IF r.err # NilError
        THEN /\ cycleLog' = cycleStart(TRUE, <<>>)
             /\ snapshot' = failedSnapshot(snapshot, r)
             /\ UNCHANGED <<wpc, pollVars, dst>>
        ELSE Compared(r.root, takeSnapshot(cfg, rtype, r.root))

\* case <-ticker.C: one poll cycle up to the request of the write lock
PollTick ==
    /\ wpc = "select"
    /\ cycle < MaxCycles
    /\ cycle' = cycle + 1
    /\ Polled(Resolve(cfg, backend, rtype, Zero(rtype)))
    /\ UNCHANGED <<chanVars, lifeVars, consumerVars, mu, rseen, committed, wroteCycle>>
    /\ UNCHANGED <<watchFixed, backend>>

\* a write lock that does not wait for the readers
canLock_IgnoreReaders(m) == ~m.writer

\* w.mu.Lock() returns: no writer and no reader holds the lock
canLock(m) == ~m.writer /\ m.readers = {}

\* w.mu.Lock()
Lock ==
    /\ wpc = "lock"
    /\ canLock(mu)
    /\ mu' = [mu EXCEPT !.writer = TRUE]
    /\ wpc' = "copy"
    /\ ci' = 1
    /\ UNCHANGED <<tmp, newSnapshot, events, dstFields, tmpFields, ei, snapshot, dst>>
    /\ UNCHANGED <<chanVars, lifeVars, consumerVars, rseen, cycle, cycleLog, committed,
                   wroteCycle>>
    /\ UNCHANGED <<watchFixed, backend>>

\* an iteration of the copy loop that copies nothing
copyField_Stale(d, t, df, tf, i) == d

\* an iteration of the copy loop that copies the whole temporary copy
copyField_WholeRecord(d, t, df, tf, i) == t

\* if i < len(tmpFields) { dstFields[i].fieldValue.Set(tmpFields[i].fieldValue) }
\* on the record d, from the temporary copy t
copyField(d, t, df, tf, i) ==
    IF i <= Len(tf) THEN SetAt(d, df[i].fieldValue, GetAt(t, tf[i].fieldValue)) ELSE d

\* one iteration of the copy loop, under the write lock
CopyField ==
    /\ wpc = "copy"
    /\ ci <= Len(dstFields)
    /\ dst' = copyField(dst, tmp, dstFields, tmpFields, ci)
    /\ ci' = ci + 1
    /\ UNCHANGED <<tmp, newSnapshot, events, dstFields, tmpFields, ei, snapshot, wpc>>
    /\ UNCHANGED <<chanVars, lifeVars, consumerVars, mu, rseen, cycle, cycleLog,
                   committed, wroteCycle>>
    /\ UNCHANGED <<watchFixed, backend>>

\* w.mu.Unlock()
Unlock ==
    /\ wpc = "copy"
    /\ ci > Len(dstFields)
    /\ mu' = [mu EXCEPT !.writer = FALSE]
    /\ wpc' = "emit"
    /\ ei' = 1
    /\ committed' = dst
    /\ wroteCycle' = cycle
    /\ UNCHANGED <<tmp, newSnapshot, events, dstFields, tmpFields, ci, snapshot, dst>>
    /\ UNCHANGED <<chanVars, lifeVars, consumerVars, rseen, cycle, cycleLog>>
    /\ UNCHANGED <<watchFixed, backend>>

\* a send that makes room by dropping the oldest event of the buffer
send_DropOldest(buf, event) ==
    IF Len(buf) < ChangesCap THEN Append(buf, event) ELSE Append(Tail(buf), event)

\* select { case w.changes <- event: default: } on the buffer buf
send(buf, event) == IF Len(buf) < ChangesCap THEN Append(buf, event) ELSE buf

\* one iteration of the loop that emits the change events
Emit ==
    /\ wpc = "emit"
    /\ ei <= Len(events)
    /\ changes' = send(changes, events[ei])
    /\ chanCycle' = IF Len(changes') > Len(changes) THEN Append(chanCycle, cycle)
                    ELSE chanCycle
    /\ elog' = [full |-> Len(changes) >= ChangesCap, before |-> changes,
                event |-> events[ei], after |-> changes']
    /\ cycleLog' = [cycleLog EXCEPT !.offered = Append(@, events[ei]),
                                    !.sent = Append(@, Len(changes') > Len(changes)),
                                    !.full = Append(@, Len(changes) >= ChangesCap)]
    /\ ei' = ei + 1
    /\ UNCHANGED <<tmp, newSnapshot, events, dstFields, tmpFields, ci, snapshot, wpc, dst>>
    /\ UNCHANGED <<lifeVars, consumerVars, mu, rseen, cycle, committed, wroteCycle>>
    /\ UNCHANGED <<watchFixed, backend>>

\* return newSnapshot, and snapshot = newSnapshot in pollLoop
PollReturn ==
    /\ wpc = "emit"
    /\ ei > Len(events)
    /\ snapshot' = newSnapshot
    /\ wpc' = "select"
    /\ tmp' = <<>>
    /\ newSnapshot' = <<>>
    /\ events' = <<>>
    /\ dstFields' = <<>>
    /\ tmpFields' = <<>>
    /\ ci' = 1
    /\ ei' = 1
    /\ UNCHANGED <<chanVars, lifeVars, consumerVars, mu, rseen, cycle, cycleLog,
                   committed, wroteCycle, dst>>
    /\ UNCHANGED <<watchFixed, backend>>

\* a select without the case <-ctx.Done()
exitReady_StopOnly(s, c) == s

\* a case of the select that returns is ready: w.stop or ctx.Done() is closed
exitReady(s, c) == s \/ c

\* case <-w.stop: return, or case <-ctx.Done(): return
LoopExit ==
    /\ wpc = "select"
    /\ exitReady(stopCh, ctxDone)
    /\ wpc' = "closing"
    /\ UNCHANGED <<pollVars, chanVars, lifeVars, consumerVars, mu, rseen, cycle, cycleLog,
                   committed, wroteCycle, snapshot, dst>>
    /\ UNCHANGED <<watchFixed, backend>>

\* defer close(w.changes)
CloseChanges ==
    /\ wpc = "closing"
    /\ changesClosed' = changesClosed + 1
    /\ wpc' = "closed"
    /\ UNCHANGED <<pollVars, chanVars, consumerVars, stopCh, doneCh, ctxDone, spc,
                   watchErr, mu, rseen, cycle, cycleLog, committed, wroteCycle, snapshot,
                   dst>>
    /\ UNCHANGED <<watchFixed, backend>>

\* defer close(w.done)
CloseDone ==
    /\ wpc = "closed"
    /\ doneCh' = TRUE
    /\ wpc' = "exited"
    /\ UNCHANGED <<pollVars, chanVars, consumerVars, changesClosed, stopCh, ctxDone, spc,
                   watchErr, mu, rseen, cycle, cycleLog, committed, wroteCycle, snapshot,
                   dst>>
    /\ UNCHANGED <<watchFixed, backend>>

\* Stop up to the receive on w.done: close(w.stop) unless it is closed
Stop ==
    /\ wpc \notin {"off", "new", "failed"}
    /\ spc \in {"idle", "returned"}
    /\ stopCh' = TRUE
    /\ spc' = "waiting"
    /\ UNCHANGED <<pollVars, chanVars, consumerVars, changesClosed, doneCh, ctxDone,
                   watchErr, mu, rseen, cycle, cycleLog, committed, wroteCycle, snapshot,
                   wpc, dst>>
    /\ UNCHANGED <<watchFixed, backend>>

\* <-w.done in Stop: Stop returns
StopReturn ==
    /\ spc = "waiting"
    /\ doneCh
    /\ spc' = "returned"
    /\ UNCHANGED <<pollVars, chanVars, consumerVars, changesClosed, stopCh, doneCh,
                   ctxDone, watchErr, mu, rseen, cycle, cycleLog, committed, wroteCycle,
                   snapshot, wpc, dst>>
    /\ UNCHANGED <<watchFixed, backend>>

\* the context passed to Watch is cancelled
Cancel ==
    /\ wpc \notin {"off", "new", "failed"}
    /\ ~ctxDone
    /\ ctxDone' = TRUE
    /\ UNCHANGED <<pollVars, chanVars, consumerVars, changesClosed, stopCh, doneCh, spc,
                   watchErr, mu, rseen, cycle, cycleLog, committed, wroteCycle, snapshot,
                   wpc, dst>>
    /\ UNCHANGED <<watchFixed, backend>>

\* event := <-w.Changes() with an event in the buffer
Receive ==
    /\ Len(changes) > 0
    /\ received' = Head(changes)
    /\ recvCycle' = Head(chanCycle)
    /\ changes' = Tail(changes)
    /\ chanCycle' = Tail(chanCycle)
    /\ UNCHANGED <<pollVars, lifeVars, rclosed, elog, mu, rseen, cycle, cycleLog,
                   committed, wroteCycle, snapshot, wpc, dst>>
    /\ UNCHANGED <<watchFixed, backend>>

\* _, ok := <-w.Changes() on the closed and drained channel
ReceiveClosed ==
    /\ Len(changes) = 0
    /\ changesClosed > 0
    /\ ~rclosed
    /\ rclosed' = TRUE
    /\ UNCHANGED <<pollVars, chanVars, lifeVars, received, recvCycle, mu, rseen, cycle,
                   cycleLog, committed, wroteCycle, snapshot, wpc, dst>>
    /\ UNCHANGED <<watchFixed, backend>>

\* w.RLock() by reader r, who then reads the record; a blocked Lock call
\* excludes new readers
RLock(r) ==
    /\ wpc \notin {"off", "new", "failed", "lock"}
    /\ r \notin mu.readers
    /\ ~mu.writer
    /\ mu' = [mu EXCEPT !.readers = @ \cup {r}]
    /\ rseen' = [rseen EXCEPT ![r] = dst]
    /\ UNCHANGED <<pollVars, chanVars, lifeVars, consumerVars, cycle, cycleLog,
                   committed, wroteCycle, snapshot, wpc, dst>>
    /\ UNCHANGED <<watchFixed, backend>>

\* w.RUnlock() by reader r
RUnlock(r) ==
    /\ r \in mu.readers
    /\ mu' = [mu EXCEPT !.readers = @ \ {r}]
    /\ rseen' = [rseen EXCEPT ![r] = <<>>]
    /\ UNCHANGED <<pollVars, chanVars, lifeVars, consumerVars, cycle, cycleLog,
                   committed, wroteCycle, snapshot, wpc, dst>>
    /\ UNCHANGED <<watchFixed, backend>>

\* the secrets change between two poll cycles; a change after the last cycle
\* is read by nobody
Change(s) ==
    /\ wpc = "select"
    /\ cycle < MaxCycles
    /\ s # backend.p1
    /\ backend' = [backend EXCEPT !.p1 = s]
    /\ UNCHANGED <<pollVars, chanVars, lifeVars, consumerVars, mu, rseen, cycle, cycleLog,
                   committed, wroteCycle, snapshot, wpc, dst>>
    /\ UNCHANGED watchFixed

\* Watch is about to be called on a record of one of the types recs, zero or
\* populated, while the provider holds one of the stores
InitWatchOn(recs, stores) ==
    /\ parOpt = <<>>
    /\ cfg = WatchConfig
    /\ \E s \in stores : backend = [p1 |-> s, p2 |-> EmptyStore]
    /\ rtype \in recs
    /\ dst0 \in {Zero(rtype), Populated(rtype)}
    /\ dst = dst0
    /\ pc = "idle"
    /\ validateErr = NilError
    /\ fields = <<>>
    /\ collectErrs = <<>>
    /\ specs = <<>>
    /\ gpc = <<>>
    /\ sem = 0
    /\ results = <<>>
    /\ calls = EmptyBag
    /\ next = 1
    /\ assigned = <<>>
    /\ assignErrs = <<>>
    /\ ret = NilError
    /\ CloseIdle
    /\ CacheIdle
    /\ TagIdle
    /\ StopIdle
    /\ wpc = "new"
    /\ watchErr = NilError
    /\ snapshot = <<>>
    /\ tmp = <<>>
    /\ newSnapshot = <<>>
    /\ events = <<>>
    /\ dstFields = <<>>
    /\ tmpFields = <<>>
    /\ ci = 1
    /\ ei = 1
    /\ changes = <<>>
    /\ changesClosed = 0
    /\ stopCh = FALSE
    /\ doneCh = FALSE
    /\ ctxDone = FALSE
    /\ mu = [writer |-> FALSE, readers |-> {}]
    /\ rseen = [r \in Readers |-> <<>>]
    /\ spc = "idle"
    /\ received = <<>>
    /\ rclosed = FALSE
    /\ cycle = 0
    /\ cycleLog = NoCycle
    /\ committed = <<>>
    /\ wroteCycle = 0
    /\ chanCycle = <<>>
    /\ recvCycle = 0
    /\ elog = NoSend

InitWatch == InitWatchOn(WatchRecords, {WatchStore0, WatchStore3})

NextWatch ==
    \/ Watch
    \/ PollTick
    \/ Lock
    \/ CopyField
    \/ Unlock
    \/ Emit
    \/ PollReturn
    \/ LoopExit
    \/ CloseChanges
    \/ CloseDone
    \/ Stop
    \/ StopReturn
    \/ Cancel
    \/ Receive
    \/ ReceiveClosed
    \/ \E r \in Readers : RLock(r)
    \/ \E r \in Readers : RUnlock(r)
    \/ \E s \in WatchStores : Change(s)

SpecWatch == InitWatch /\ [][NextWatch]_vars

\* the steps the poll goroutine takes by itself once it left the select
WorkerStep ==
    Lock \/ CopyField \/ Unlock \/ Emit \/ PollReturn \/ CloseChanges \/ CloseDone

\* some reader releases the read lock
ReaderUnlocks == \E r \in Readers : RUnlock(r)

\* Watch is called on a populated record while every secret resolves
InitWatchLive ==
    /\ InitWatch
    /\ dst0 = Populated(rtype)
    /\ backend.p1 = WatchStore0

\* The scheduler runs every goroutine that can take a step; a select picks
\* among its ready cases at random, so a case that is ready again and again is
\* taken; a reader releases the read lock it holds.
SpecWatchLive ==
    /\ InitWatchLive
    /\ [][NextWatch]_vars
    /\ WF_vars(WorkerStep)
    /\ SF_vars(LoopExit)
    /\ WF_vars(StopReturn)
    /\ WF_vars(ReaderUnlocks)

(***************************************************************************)
(* The Watcher on a record with a Versioned[T] field                       *)
(***************************************************************************)
\* a watched record with a versioned pair and a plain secret
RecPair ==
    StructOf(<<"P","a","i","r">>,
        <<StructField(<<"K","e","y">>, <<<<"k","1">>>>, Versioned(TString)),
          StructField(<<"T","o","k">>, <<<<"k","2">>>>, TString),
          StructField(<<"N","u","m">>, <<<<"k","3">>>>, Versioned(TInt))>>)

PairStore0 ==
    [data |-> (<<"k","1">> :> <<"c","1">>) @@ (<<"k","2">> :> <<"t","1">>) @@ (<<"k","3">> :> <<"5">>),
     versions |-> (<<<<"k","1">>, <<"p","r","e","v","i","o","u","s">>>> :> <<"p","1">>) @@ (<<<<"k","3">>, <<"p","r","e","v","i","o","u","s">>>> :> <<"4">>),
     failing |-> {}]

\* the previous version alone replaced
PairStore1 == [PairStore0 EXCEPT !.versions[<<<<"k","1">>, <<"p","r","e","v","i","o","u","s">>>>] = <<"p","2">>]

\* a rotation: a new current value, the old one is the previous version
PairStore2 ==
    [PairStore0 EXCEPT !.data[<<"k","1">>] = <<"c","2">>, !.versions[<<<<"k","1">>, <<"p","r","e","v","i","o","u","s">>>>] = <<"c","1">>]

\* a rotation after which the previous version of the number does not convert
PairStore3 ==
    [PairStore0 EXCEPT !.data[<<"k","3">>] = <<"6">>, !.versions[<<<<"k","3">>, <<"p","r","e","v","i","o","u","s">>>>] = <<"x">>]

\* the plain secret deleted
PairStore4 ==
    [data |-> (<<"k","1">> :> <<"c","1">>) @@ (<<"k","3">> :> <<"5">>),
     versions |-> PairStore0.versions, failing |-> {}]

PairStores == {PairStore0, PairStore1, PairStore2, PairStore3, PairStore4}

InitPair == InitWatchOn({RecPair}, {PairStore0, PairStore3, PairStore4})

NextPair ==
    \/ Watch
    \/ PollTick
    \/ Lock
    \/ CopyField
    \/ Unlock
    \/ Emit
    \/ PollReturn
    \/ LoopExit
    \/ CloseChanges
    \/ CloseDone
    \/ Stop
    \/ StopReturn
    \/ Cancel
    \/ Receive
    \/ ReceiveClosed
    \/ \E r \in Readers : RLock(r)
    \/ \E r \in Readers : RUnlock(r)
    \/ \E s \in PairStores : Change(s)

SpecPair == InitPair /\ [][NextPair]_vars

(***************************************************************************)
(* Stop called by several goroutines: the select of Stop and its           *)
(* close(w.stop) are two steps, and a close of a closed channel panics     *)
(***************************************************************************)
\* what Stop leaves alone in the state of the Watcher
stopFrame ==
    <<pollVars, chanVars, consumerVars, changesClosed, doneCh, ctxDone, spc, watchErr,
      mu, rseen, cycle, cycleLog, committed, wroteCycle, snapshot, wpc, dst>>

\* the select of Stop: case <-w.stop when the channel is closed, default otherwise
StopSelect(g) ==
    /\ wpc \notin {"off", "new", "failed"}
    /\ stopCloses < 2
    /\ stpc[g] \in {"idle", "returned"}
    /\ stpc' = [stpc EXCEPT ![g] = IF stopCh THEN "waiting" ELSE "default"]
    /\ UNCHANGED <<stopCh, stopCloses, stopFrame>>
    /\ UNCHANGED <<stopFixed, backend>>

\* default: close(w.stop)
StopClose(g) ==
    /\ stpc[g] = "default"
    /\ stopCloses < 2
    /\ stopCloses' = stopCloses + 1
    /\ stopCh' = TRUE
    /\ stpc' = [stpc EXCEPT ![g] = "waiting"]
    /\ UNCHANGED stopFrame
    /\ UNCHANGED <<stopFixed, backend>>

\* <-w.done returns and with it Stop
StopWait(g) ==
    /\ stpc[g] = "waiting"
    /\ stopCloses < 2
    /\ doneCh
    /\ stpc' = [stpc EXCEPT ![g] = "returned"]
    /\ UNCHANGED <<stopCh, stopCloses, stopFrame>>
    /\ UNCHANGED <<stopFixed, backend>>

\* Watch is called on a populated record while every secret resolves
InitStop ==
    /\ InitWatch
    /\ dst0 = Populated(rtype)
    /\ backend.p1 = WatchStore0

NextStop ==
    \/ Watch
    \/ PollTick
    \/ LoopExit
    \/ CloseChanges
    \/ CloseDone
    \/ Cancel
    \/ \E g \in Stoppers : StopSelect(g)
    \/ \E g \in Stoppers : StopClose(g)
    \/ \E g \in Stoppers : StopWait(g)

SpecStop == InitStop /\ [][NextStop]_vars

(***************************************************************************)
(* parseTag on tags put together from the parts below                      *)
(***************************************************************************)
\* the largest number of parts of a tag
MaxTagParts == 4

\* the parts: a key, schemes, separators, fragments and options
TagPieces ==
    {<<"k">>, <<"s",":","/","/">>, <<" ">>, <<":","/","/">>, <<"#">>, <<"#","f">>, <<",","o","p","t","i","o","n","a","l">>, <<",","v","e","r","s","i","o","n","=","2">>, <<",","b","o","g","u","s">>}

\* the text of a tag made of the parts ps
RECURSIVE TagText(_)
TagText(ps) == IF ps = <<>> THEN <<>> ELSE Head(ps) \o TagText(Tail(ps))

InitTag ==
    /\ ResolveIdle
    /\ CloseIdle
    /\ CacheIdle
    /\ WatchIdle
    /\ tagParts = <<>>
    /\ tagRet = [t |-> ZeroTag, err |-> NilError]
    /\ tpc = "input"

\* one more part is written
TagAppend(piece) ==
    /\ tpc = "input"
    /\ Len(tagParts) < MaxTagParts
    /\ tagParts' = Append(tagParts, piece)
    /\ UNCHANGED <<tagRet, tpc>>
    /\ UNCHANGED <<resolveVars, closeVars, cacheVars, watchVars>>

\* parseTag(raw) on the tag written so far
ParseTag ==
    /\ tpc = "input"
    /\ tagRet' = parseTag(TagText(tagParts))
    /\ tpc' = "parsed"
    /\ UNCHANGED tagParts
    /\ UNCHANGED <<resolveVars, closeVars, cacheVars, watchVars>>

NextTag ==
    \/ \E piece \in TagPieces : TagAppend(piece)
    \/ ParseTag

SpecTag == InitTag /\ [][NextTag]_vars

(***************************************************************************)
(* Properties of Resolve                                                   *)
(***************************************************************************)
\* the goroutines have all finished and Resolve went on to the assignments
FetchDone == pc \in {"assign", "done"} /\ (fields # <<>> \/ collectErrs = <<>>)

\* the fetch keys (canonical URI, version) that the collected fields need
RequiredKeys ==
    UNION {{KeysOf(fields[i])[k] : k \in 1..Len(KeysOf(fields[i]))} : i \in 1..Len(fields)}

\* the plan entries for a fetch key whose goroutine has passed its dispatch step
Dispatched(fk) ==
    {i \in 1..Len(specs) : specs[i].key = fk /\ gpc[i] \in {"calling", "stored", "done"}}

\* C1: within one Resolve no fetch key (canonical URI, version) is dispatched
\* more than once, and when the fetches are over every fetch key that a field
\* needs has been dispatched exactly once
C1_EachFetchKeyDispatchedOnce ==
    \A fk \in RequiredKeys :
        /\ Cardinality(Dispatched(fk)) <= 1
        /\ FetchDone => Cardinality(Dispatched(fk)) = 1

\* what the provider bound to a field answers for one of the field's fetch keys
OwnResult(fi, fk) ==
    IF fk.version # <<>>
        THEN GetVersion(backend[fi.provider.id], fi.tag.Key, fk.version)
        ELSE Get(backend[fi.provider.id], fi.tag.Key)

\* C2: both components of a fetch key are significant: when the fetches are
\* over, the result from which a field is assigned is the answer of the
\* field's provider to the field's own (key, version), for every key string
\* and version token
C2_FieldAssignedFromOwnFetchKey ==
    FetchDone =>
        \A i \in 1..Len(fields) : \A k \in 1..Len(KeysOf(fields[i])) :
            LET fi == fields[i]
                fk == KeysOf(fi)[k]
            IN  (fk.version = <<>> \/ fi.provider.versioned)
                    => results[String(fk)] = OwnResult(fi, fk)

\* the parallelism the options ask for: 10 when not given, at least 1
ConfiguredParallelism ==
    IF parOpt = <<>> THEN DefaultParallelism
    ELSE IF parOpt[1] < 1 THEN 1 ELSE parOpt[1]

\* the provider calls in flight
InFlight == {i \in 1..Len(specs) : gpc[i] = "calling"}

\* C3: at every moment of a Resolve the number of provider calls in flight is
\* at most the configured parallelism, which is 10 when not configured and 1
\* when a value below 1 was configured
C3_InFlightWithinParallelism ==
    /\ cfg.parallelism = ConfiguredParallelism
    /\ Cardinality(InFlight) <= ConfiguredParallelism

\* a parallelism below 1 was configured, one call is in flight and another
\* plan entry waits for the semaphore
C3_Witness ==
    /\ parOpt # <<>> /\ parOpt[1] < 1
    /\ Cardinality(InFlight) = 1
    /\ \E i \in 1..Len(specs) : gpc[i] = "spawned"

(***************************************************************************)
(* The fields of the record, as the properties below speak of them         *)
(***************************************************************************)
\* the exported tagged fields of a record type from field i on, through
\* embedded structs and untagged nested structs, in declaration order
RECURSIVE TaggedFields(_, _)
TaggedFields(t, i) ==
    IF i > Len(t.fields) THEN <<>>
    ELSE LET f  == t.fields[i]
             ft == IF f.Type.kind = "ptr" THEN f.Type.elem[1] ELSE f.Type
             nested == IF ft.kind = "struct" THEN TaggedFields(ft, 1) ELSE <<>>
             here == IF f.Anonymous THEN nested
                     ELSE IF ~IsExported(f) THEN <<>>
                     ELSE IF f.Tag # <<>> THEN <<f>>
                     ELSE nested
         IN  here \o TaggedFields(t, i + 1)

AllTagged == TaggedFields(rtype, 1)

\* the key a tag names: its first comma-separated part without the fragment
\* and without the scheme
KeyOfTag(raw) ==
    LET uri0 == Split(raw, <<",">>)[1]
        idx  == LastIndex(uri0, <<"#">>)
        uri  == IF idx >= 1 THEN SubSeq(uri0, 1, idx - 1) ELSE uri0
        cut  == Cut(uri, <<":","/","/">>)
    IN  IF cut.found THEN cut.after ELSE uri

Malformed(f) == parseTag(f.Tag[1]).err # NilError

UnknownScheme(f) ==
    /\ ~Malformed(f)
    /\ parseTag(f.Tag[1]).t.Scheme # <<>>
    /\ parseTag(f.Tag[1]).t.Scheme \notin DOMAIN cfg.providers

NoDefault(f) ==
    /\ ~Malformed(f)
    /\ parseTag(f.Tag[1]).t.Scheme = <<>>
    /\ cfg.defaultProvider = NoProvider

BoundProvider(f) ==
    IF parseTag(f.Tag[1]).t.Scheme # <<>>
        THEN cfg.providers[parseTag(f.Tag[1]).t.Scheme]
        ELSE cfg.defaultProvider

\* a versioned pair bound to a provider without GetVersion
PairOnPlainProvider(f) ==
    /\ ~Malformed(f) /\ ~UnknownScheme(f) /\ ~NoDefault(f)
    /\ isVersionedType(f.Type)
    /\ ~BoundProvider(f).versioned

UnsupportedType(f) ==
    ~isSupportedType(IF isVersionedType(f.Type) THEN f.Type.fields[1].Type ELSE f.Type)

\* the defects the walker of Resolve looks for
WalkerDefect(f) == Malformed(f) \/ UnknownScheme(f) \/ NoDefault(f) \/ PairOnPlainProvider(f)

ConfigDefect(f) == WalkerDefect(f) \/ UnsupportedType(f)

\* the text s contains the text sub
Contains(s, sub) == Occurrences(s, sub) # {}

\* the text of an error, empty for nil
Text(e) == IF e = NilError THEN <<>> ELSE Error(e)

\* the error e is the entry of the field called name
Names(e, name) ==
    \/ HasPrefix(Error(e), <<"s","e","c","r","e","t","s",":"," ","f","i","e","l","d"," ">> \o name \o <<":">>)
    \/ HasPrefix(Error(e), <<"s","e","c","r","e","t","s",":"," ","f","i","e","l","d"," ">> \o name \o <<".">>)

\* the constituents of the error returned by Resolve
RetErrs == IF ret.kind = "joinError" THEN ret.errs ELSE <<>>

EntriesFor(name) == {k \in 1..Len(RetErrs) : Names(RetErrs[k], name)}

\* the answer Resolve holds for the k-th fetch key of a collected field
ResultOf(fi, k) == results[String(KeysOf(fi)[k])]

\* a collected field that is not a versioned pair was assigned from its
\* answer, or was optional and not found
PlainSucceeded(fi) ==
    LET r    == ResultOf(fi, 1)
        frag == afterFragment(fi, r.data)
        set  == setField(fi.fieldType, fi.fieldName, frag.data)
    IN  \/ fi.tag.Optional /\ IsNotFound(r.err)
        \/ /\ r.err = NilError /\ frag.err = NilError /\ set.err = NilError
           /\ GetAt(dst, fi.fieldValue) = set.val

\* a versioned pair got its current value and, unless the previous version was
\* not found, its previous value; or was optional and not found
PairSucceeded(fi) ==
    LET cur   == ResultOf(fi, 1)
        prev  == ResultOf(fi, 2)
        inner == fi.fieldType.fields[1].Type
        curFrag  == afterFragment(fi, cur.data)
        curSet   == setField(inner, fi.fieldName \o <<".","C","u","r","r","e","n","t">>, curFrag.data)
        prevFrag == afterFragment(fi, prev.data)
        prevSet  == setField(inner, fi.fieldName \o <<".","P","r","e","v","i","o","u","s">>, prevFrag.data)
    IN  \/ fi.tag.Optional /\ IsNotFound(cur.err)
        \/ /\ cur.err = NilError /\ curFrag.err = NilError /\ curSet.err = NilError
           /\ GetAt(dst, fi.fieldValue \o <<1>>) = curSet.val
           /\ \/ IsNotFound(prev.err)
              \/ /\ prev.err = NilError /\ prevFrag.err = NilError /\ prevSet.err = NilError
                 /\ GetAt(dst, fi.fieldValue \o <<2>>) = prevSet.val

Succeeded(fi) == IF fi.isVersioned THEN PairSucceeded(fi) ELSE PlainSucceeded(fi)

\* a tagged field of the record for which Resolve did not do its work
Failed(f) ==
    \/ WalkerDefect(f)
    \/ \E j \in 1..Len(fields) : fields[j].fieldName = f.Name /\ ~Succeeded(fields[j])

\* the provider calls made for the key of a collected field
CallsFor(fi) ==
    {c \in BagToSet(calls) : c.provider = fi.provider.id /\ c.key = fi.tag.Key}

C5_OptionalNotFoundLeavesZeroValue ==
    pc = "done" =>
        \A j \in 1..Len(fields) :
            (fields[j].tag.Optional /\ IsNotFound(ResultOf(fields[j], 1).err)) =>
                /\ GetAt(dst, fields[j].fieldValue) = Zero(fields[j].fieldType)
                /\ EntriesFor(fields[j].fieldName) = {}
                /\ (/\ collectErrs = <<>>
                    /\ \A k \in 1..Len(fields) : k # j => Succeeded(fields[k]))
                      => ret = NilError

\* C6: after Resolve every versioned pair whose current fetch succeeded (and
\* whose current value converts) and whose fetch of version "previous"
\* returned ErrNotFound has its current slot set and its previous slot at the
\* zero value, and the returned error has no entry for it
C6_PreviousNotFoundLeavesPreviousZero ==
    pc = "done" =>
        \A j \in 1..Len(fields) :
            fields[j].isVersioned =>
                LET fi    == fields[j]
                    cur   == ResultOf(fi, 1)
                    inner == fi.fieldType.fields[1].Type
                    frag  == afterFragment(fi, cur.data)
                    set   == setField(inner, fi.fieldName \o <<".","C","u","r","r","e","n","t">>, frag.data)
                IN  (/\ cur.err = NilError /\ IsNotFound(ResultOf(fi, 2).err)
                     /\ frag.err = NilError /\ set.err = NilError) =>
                        /\ GetAt(dst, fi.fieldValue \o <<1>>) = set.val
                        /\ GetAt(dst, fi.fieldValue \o <<2>>) = Zero(inner)
                        /\ EntriesFor(fi.fieldName) = {}

(***************************************************************************)
(* C7                                                                      *)
(***************************************************************************)
ErrorKinds ==
    {"ErrNoDefaultProvider", "ErrUnknownProvider", "ErrConversion", "ErrUnsupportedType",
     "ErrVersioningNotSupported"}

\* C7 as claimed: the error Resolve returns has one constituent per failing
\* field, its text contains the name and the key of every failing field, and
\* errors.Is for ErrNotFound and errors.As for each typed error succeed on it
\* whenever they succeed on a constituent
C7_JoinedErrorTextHasNameAndKeyOfEveryFailingField ==
    pc = "done" =>
        /\ \A i \in 1..Len(AllTagged) :
              Failed(AllTagged[i]) =>
                /\ Cardinality(EntriesFor(AllTagged[i].Name)) = 1
                /\ Contains(Text(ret), AllTagged[i].Name)
                /\ Contains(Text(ret), KeyOfTag(AllTagged[i].Tag[1]))
        /\ \A k \in 1..Len(RetErrs) :
              /\ IsNotFound(RetErrs[k]) => IsNotFound(ret)
              /\ \A kind \in ErrorKinds : As(RetErrs[k], kind) => As(ret, kind)

\* the fetch of a collected field ended with an error that is not excused
FetchFailure(fi) ==
    /\ ResultOf(fi, 1).err # NilError
    /\ ~(fi.tag.Optional /\ IsNotFound(ResultOf(fi, 1).err))

\* the answer that made a collected field fail was (a wrapping of) ErrNotFound
NotFoundFailure(fi) == ~fi.tag.Optional /\ IsNotFound(ResultOf(fi, 1).err)

\* the typed error, if any, with which the conversion of a fetched value of
\* a collected field that is not a versioned pair ends
ConversionError(fi) ==
    LET r    == ResultOf(fi, 1)
        frag == afterFragment(fi, r.data)
        set  == setField(fi.fieldType, fi.fieldName, frag.data)
    IN  IF ~fi.isVersioned /\ r.err = NilError /\ frag.err = NilError
            THEN set.err ELSE NilError

\* C7 amended: the error Resolve returns has exactly one constituent per
\* failing field and none for any other field; the constituent of a field
\* starts with "secrets: field <name>"; it contains the field's key when the
\* failure is a missing default provider or an unknown scheme, and it is the
\* text of the provider's error after "secrets: field <name>: " when the fetch
\* failed (conversion, unsupported-type, fragment, versioning and
\* malformed-tag errors do not carry the key); errors.Is for ErrNotFound succeeds on the
\* returned error when a required field was not found, and errors.As succeeds
\* for the typed error of every defect
C7_JoinedErrorHasOneEntryPerFailingField ==
    pc = "done" =>
        /\ Len(RetErrs) = Cardinality({i \in 1..Len(AllTagged) : Failed(AllTagged[i])})
        /\ (ret = NilError) = (\A i \in 1..Len(AllTagged) : ~Failed(AllTagged[i]))
        /\ \A i \in 1..Len(AllTagged) :
              LET f == AllTagged[i]
              IN  /\ Cardinality(EntriesFor(f.Name)) = IF Failed(f) THEN 1 ELSE 0
                  /\ (NoDefault(f) \/ UnknownScheme(f)) =>
                        \A k \in EntriesFor(f.Name) :
                            Contains(Error(RetErrs[k]), Quote(KeyOfTag(f.Tag[1])))
                            \/ Contains(Error(RetErrs[k]),
                                        <<":","/","/">> \o KeyOfTag(f.Tag[1]) \o <<"\"">>)
                  /\ NoDefault(f) => As(ret, "ErrNoDefaultProvider")
                  /\ UnknownScheme(f) => As(ret, "ErrUnknownProvider")
                  /\ PairOnPlainProvider(f) => As(ret, "ErrVersioningNotSupported")
        /\ \A j \in 1..Len(fields) :
              LET fi == fields[j]
              IN  /\ NotFoundFailure(fi) => IsNotFound(ret)
                  /\ FetchFailure(fi) =>
                        \A k \in EntriesFor(fi.fieldName) :
                            Error(RetErrs[k]) = <<"s","e","c","r","e","t","s",":"," ","f","i","e","l","d"," ">> \o fi.fieldName \o <<":"," ">>
                                                   \o Error(ResultOf(fi, 1).err)
                  /\ ConversionError(fi) # NilError => As(ret, ConversionError(fi).kind)

\* Resolve has returned an error for several fields, one of them not found
\* and one of them with an unknown scheme
C7_Witness ==
    /\ pc = "done"
    /\ Len(RetErrs) >= 3
    /\ \E j \in 1..Len(fields) : NotFoundFailure(fields[j])
    /\ \E i \in 1..Len(AllTagged) : UnknownScheme(AllTagged[i])

(***************************************************************************)
(* C8, C9                                                                  *)
(***************************************************************************)
\* the constituents of the error returned by Validate
ValErrs == IF validateErr.kind = "joinError" THEN validateErr.errs ELSE <<>>

ValEntriesFor(name) == {k \in 1..Len(ValErrs) : Names(ValErrs[k], name)}

\* a field that cannot be satisfied, as Validate documents it
Unsatisfiable(f) == Malformed(f) \/ UnknownScheme(f) \/ NoDefault(f) \/ UnsupportedType(f)

\* C8 as claimed: the text of the error of Validate contains the name and the
\* key of every field that cannot be satisfied
C8_ValidateTextHasNameAndKeyOfEveryField ==
    pc # "new" =>
        \A i \in 1..Len(AllTagged) :
            Unsatisfiable(AllTagged[i]) =>
                /\ Contains(Text(validateErr), AllTagged[i].Name)
                /\ Contains(Text(validateErr), KeyOfTag(AllTagged[i].Tag[1]))

\* C8 amended: the error of Validate has a constituent starting with
\* "secrets: field <name>" for every field that cannot be satisfied and for
\* no other field; the text contains the field's key when the defect is an
\* unknown scheme or a bare key without default provider (the errors for a
\* malformed tag and for an unsupported type do not carry the key)
C8_ValidateNamesEveryUnsatisfiableField ==
    pc # "new" =>
        /\ (validateErr = NilError) = (\A i \in 1..Len(AllTagged) : ~Unsatisfiable(AllTagged[i]))
        /\ \A i \in 1..Len(AllTagged) :
              LET f == AllTagged[i]
              IN  /\ Unsatisfiable(f) = (ValEntriesFor(f.Name) # {})
                  /\ (NoDefault(f) \/ UnknownScheme(f)) =>
                        \E k \in ValEntriesFor(f.Name) :
                            Contains(Error(ValErrs[k]), Quote(KeyOfTag(f.Tag[1])))
                            \/ Contains(Error(ValErrs[k]),
                                        <<":","/","/">> \o KeyOfTag(f.Tag[1]) \o <<"\"">>)

\* Validate has returned an error for a field of unsupported type with a
\* default provider next to fields with other defects
C8_Witness ==
    /\ pc # "new"
    /\ Len(ValErrs) >= 3
    /\ \E i \in 1..Len(AllTagged) :
          UnsupportedType(AllTagged[i]) /\ ~NoDefault(AllTagged[i])
                                        /\ ~UnknownScheme(AllTagged[i])

\* C9: Validate reports every defect the walker of Resolve reports: when
\* Validate returned nil, the error of Resolve on the same record holds no
\* ErrNoDefaultProvider, ErrUnknownProvider, ErrUnsupportedType or
\* ErrVersioningNotSupported
C9_ValidatePassedImpliesNoConfigErrorInResolve ==
    (pc = "done" /\ validateErr = NilError) =>
        \A kind \in ErrorKinds \ {"ErrConversion"} : ~As(ret, kind)

(***************************************************************************)
(* C10                                                                     *)
(***************************************************************************)
\* the provider instances bound as default or under a scheme
BoundProviders ==
    (IF cfg.defaultProvider # NoProvider THEN {cfg.defaultProvider} ELSE {})
        \cup {cfg.providers[sch] : sch \in DOMAIN cfg.providers}

\* the bound instances with a Close method that returns an error
FailingClosers == {p \in BoundProviders : p.closer /\ p.id \in closeFails}

CloseRetErrs == IF closeRet.kind = "joinError" THEN closeRet.errs ELSE <<>>

\* C10: one Close of a resolver calls Close exactly once on every distinct
\* bound provider instance that has a Close method, also when the instance is
\* bound as default and under schemes, and never more than once at any
\* moment; a Close that fails does not keep the other providers from being
\* closed, and the returned error joins the errors of all failing Closes
C10_CloseClosesEachCloseableOnce ==
    /\ \A id \in ProviderIds : closed[id] <= 1
    /\ cpc = "done" =>
          /\ \A p \in BoundProviders : closed[p.id] = IF p.closer THEN 1 ELSE 0
          /\ \A id \in ProviderIds :
                (\A p \in BoundProviders : p.id # id) => closed[id] = 0
          /\ Len(CloseRetErrs) = Cardinality(FailingClosers)
          /\ \A p \in FailingClosers :
                \E k \in 1..Len(CloseRetErrs) : CloseRetErrs[k] = CloseFailure(p.id)

\* Close has returned for a resolver with one closeable instance as default
\* and under a scheme and another closeable instance under another scheme,
\* the Close of the first having failed
C10_Witness ==
    /\ cpc = "done"
    /\ cfg.defaultProvider = Q1
    /\ \E sch \in DOMAIN cfg.providers : cfg.providers[sch] = Q1
    /\ \E sch \in DOMAIN cfg.providers : cfg.providers[sch] = Q2
    /\ closeFails = {"q1"}
    /\ closed["q1"] = 1 /\ closed["q2"] = 1
    /\ Len(CloseRetErrs) = 1

(***************************************************************************)
(* The cached provider                                                     *)
(***************************************************************************)
\* the last step recorded in klog belongs to a Get call
InGet == kreq.method = "Get"

\* C11: Get returns the cached bytes without a call of the wrapped provider
\* exactly when an entry for the key exists and now < expires, so that at
\* now = expires it is a miss; on a miss it calls the wrapped provider once
\* and on success stores the bytes with expires = now + ttl
C11_GetHitsExactlyWhileNowBeforeExpiry ==
    InGet =>
        /\ klog.kind = "hit" =>
              /\ klog.had /\ klog.at < klog.expires
              /\ kcalls = 0
              /\ kret = [data |-> entries[klog.key].data, err |-> NilError]
        /\ klog.kind = "miss" => ~(klog.had /\ klog.at < klog.expires)
        /\ klog.kind \in {"ok", "fail", "store"} => kcalls = 1
        /\ klog.kind = "store" =>
              /\ entries[klog.key] = [data |-> kdata, expires |-> klog.at + ttl]
              /\ kret = [data |-> kdata, err |-> NilError]

\* what the code does at the boundary: an entry is served up to and at
\* now = expires, and is a miss only after it
GetHitsUntilNowAfterExpiry ==
    InGet =>
        /\ klog.kind = "hit" =>
              /\ klog.had /\ klog.at <= klog.expires
              /\ kcalls = 0
              /\ kret = [data |-> entries[klog.key].data, err |-> NilError]
        /\ klog.kind = "miss" => ~(klog.had /\ klog.at <= klog.expires)
        /\ klog.kind \in {"ok", "fail", "store"} => kcalls = 1
        /\ klog.kind = "store" =>
              /\ entries[klog.key] = [data |-> kdata, expires |-> klog.at + ttl]
              /\ kret = [data |-> kdata, err |-> NilError]

\* C12: the cache holds an entry for a cache key only if a call of the wrapped
\* provider for that key succeeded; a failed call leaves the entry of its key
\* as it was; and no call is served from the cache for a key whose latest
\* call of the wrapped provider failed, so the next call asks the provider
C12_ErrorsAreNeverCached ==
    /\ DOMAIN entries \subseteq kok
    /\ \A k \in DOMAIN entries : entries[k].data # <<>>
    /\ klog.kind = "fail" =>
          /\ kret.err # NilError
          /\ (klog.key \in DOMAIN entries) = klog.had
          /\ klog.had => entries[klog.key].expires = klog.expires
    /\ klog.kind = "hit" => klog.key \notin kfailed

\* a Get whose key failed at its latest call of the wrapped provider, while a
\* GetVersion result is cached, looked into the cache, missed, and goes on to
\* call the wrapped provider again
C12_Witness ==
    /\ InGet
    /\ klog.kind = "miss"
    /\ klog.key \in kfailed
    /\ kpc = "call"
    /\ entries # <<>>

\* Resolve as one step returns what the steps of Resolve return
ResolveAgrees ==
    (pc = "done" /\ assigned # <<>>) =>
        /\ ret = Resolve(cfg, backend, rtype, dst0).err
        /\ dst = Resolve(cfg, backend, rtype, dst0).root

(***************************************************************************)
(* Claims about the Watcher                                                *)
(***************************************************************************)
\* the last poll cycle is over and its Resolve succeeded
CycleSucceeded == wpc = "select" /\ cycle > 0 /\ ~cycleLog.failed

\* the snapshot positions at which old and new differ
Differing(old, new) ==
    {i \in 1..Len(new) : i <= Len(old) /\ old[i].raw # new[i].raw}

\* the j-th of the positions D, in the order of the walker
Nth(D, j) == CHOOSE i \in D : Cardinality({d \in D : d <= i}) = j

\* C13: a successful poll cycle in which k snapshot positions differ from the
\* prior snapshot offers exactly k events to the channel, one per differing
\* position in the order of the walker, each with the field name, the key and the
\* provider name of the position, the old bytes and the new bytes, and every one
\* of them that finds room in the channel is published; with k = 0 it offers none
C13_OneEventPerDifferingField ==
    CycleSucceeded =>
        LET old == cycleLog.old
            new == cycleLog.new
            D == Differing(old, new)
        IN  /\ Len(new) = Len(old)
            /\ Len(cycleLog.offered) = Cardinality(D)
            /\ \A j \in 1..Cardinality(D) :
                  /\ cycleLog.offered[j] =
                         [Field |-> new[Nth(D, j)].fieldName,
                          Key |-> new[Nth(D, j)].key,
                          Provider |-> new[Nth(D, j)].providerName,
                          OldValue |-> old[Nth(D, j)].raw,
                          NewValue |-> new[Nth(D, j)].raw]
                  /\ cycleLog.sent[j] = ~cycleLog.full[j]

\* a successful cycle with two differing positions has published two events
C13_Witness ==
    /\ CycleSucceeded
    /\ Cardinality(Differing(cycleLog.old, cycleLog.new)) >= 2
    /\ cycleLog.sent[1] /\ cycleLog.sent[2]
    /\ cycleLog.offered[1].Field = <<"V","a","l">>
    /\ cycleLog.offered[2].Field = <<"O","p","t">>

\* the bytes of the field of record root that event e is about
LiveBytes(root, e) ==
    LET snap == takeSnapshot(cfg, rtype, root)
    IN  {snap[i].raw : i \in {j \in 1..Len(snap) : snap[j].fieldName = e.Field}}

\* C14: in every cycle the copy into the live record is complete and the write
\* lock released before an event of the cycle is published, no event of a cycle
\* is published before the cycle's copy, every event in the channel or received
\* belongs to a cycle whose copy is complete, and a consumer that has received
\* an event of the cycle that wrote last finds the event's NewValue in the
\* live record whenever the write lock is free
C14_WritesPrecedeEvents ==
    /\ wpc = "emit" =>
          /\ ~mu.writer
          /\ wroteCycle = cycle
          /\ \A i \in 1..Len(dstFields) :
                GetAt(dst, dstFields[i].fieldValue) = GetAt(tmp, tmpFields[i].fieldValue)
    /\ wpc \in {"lock", "copy"} =>
          /\ cycleLog.offered = <<>>
          /\ wroteCycle < cycle
    /\ \A i \in 1..Len(chanCycle) : chanCycle[i] <= wroteCycle
    /\ recvCycle <= wroteCycle
    /\ (recvCycle > 0 /\ recvCycle = wroteCycle /\ ~mu.writer) =>
          LiveBytes(dst, received) = {received.NewValue}

\* a consumer has received an event of the cycle that wrote last and a reader
\* holding the read lock reads the event's new value from the live record
C14_Witness ==
    /\ recvCycle > 0
    /\ recvCycle = wroteCycle
    /\ mu.readers # {}
    /\ received.Field = <<"V","a","l">>
    /\ received.NewValue = <<"v","2">>
    /\ \A r \in mu.readers : LiveBytes(rseen[r], received) = {<<"v","2">>}

\* the paths of the fields below the value v of type t that carry no secret
\* annotation and hold no annotated field
RECURSIVE PlainPaths(_, _, _)
PlainPaths(t, v, path) ==
    UNION {
        LET f == t.fields[i]
            inner == IF f.Type.kind = "ptr" THEN f.Type.elem[1] ELSE f.Type
        IN  IF f.Tag # <<>> THEN {}
            ELSE IF inner.kind = "struct" /\ hasSecretTags(inner)
                THEN IF f.Type.kind # "ptr" THEN PlainPaths(inner, v[i], path \o <<i>>)
                     ELSE IF v[i] = <<>> THEN {}
                     ELSE PlainPaths(inner, v[i][1], path \o <<i, 1>>)
            ELSE {path \o <<i>>}
        : i \in 1..Len(t.fields)}

FailedCycleStep == cycle' = cycle + 1 /\ cycleLog'.failed

\* C16: a cycle whose Resolve into the temporary copy fails publishes nothing
\* and changes neither the live record nor the snapshot; the snapshot changes
\* only in Watch and at the end of a successful cycle, which compared with the
\* snapshot as it was; and between cycles the snapshot is what the live record
\* holds, so a change that happened while cycles failed is reported by the
\* next successful cycle as one event from the old to the new value
C16_FailedCycleChangesNothing ==
    /\ [][FailedCycleStep =>
             /\ changes' = changes
             /\ dst' = dst
             /\ snapshot' = snapshot
             /\ wpc' = "select"]_vars
    /\ [][(snapshot' # snapshot /\ wpc # "new") =>
             /\ ~cycleLog'.failed
             /\ cycleLog'.old = snapshot
             /\ snapshot' = cycleLog'.new
             /\ wpc' = "select"]_vars
    /\ [](wpc = "select" => snapshot = takeSnapshot(cfg, rtype, dst))

\* a cycle failed while the secret went from v1 to v2, and the next cycle has
\* published the one event from v1 to v2
C16_Witness ==
    /\ CycleSucceeded
    /\ cycleLog.skipped >= 1
    /\ Len(cycleLog.offered) = 1
    /\ cycleLog.offered[1].Field = <<"V","a","l">>
    /\ cycleLog.offered[1].OldValue = <<"v","1">>
    /\ cycleLog.offered[1].NewValue = <<"v","2">>
    /\ cycleLog.sent = <<TRUE>>

\* what C17 says apart from what a receive yields once Stop has returned
StopAndCancelEndTheWorker ==
    /\ (stopCh \/ ctxDone) ~> (wpc = "exited")
    /\ (spc = "waiting") ~> (spc = "returned")
    /\ [](changesClosed <= 1)
    /\ [](doneCh => (wpc = "exited" /\ changesClosed = 1))
    /\ [](spc = "returned" => doneCh)
    /\ [][wpc = "exited" =>
             /\ wpc' = "exited"
             /\ dst' = dst
             /\ changesClosed' = changesClosed
             /\ changes' = changes \/ changes' = Tail(changes)]_vars

\* C17 as stated: after Stop or the cancellation of the context the worker
\* exits and closes the channel exactly once, Stop returns only after the exit
\* and also after a cancellation, nothing is written or published afterwards,
\* and once Stop has returned every receive observes closure, that is, no
\* event is left to receive
C17_EveryReceiveAfterStopObservesClosure ==
    /\ StopAndCancelEndTheWorker
    /\ [](spc = "returned" => changes = <<>>)

\* C17, amended: as above, but once Stop has returned a receive yields the
\* events that were published before the worker exited and are still in the
\* buffer, and observes closure only when the buffer is drained; from then on
\* every receive observes closure
C17_StopWaitsForTheWorker ==
    /\ StopAndCancelEndTheWorker
    /\ [][rclosed' # rclosed => (changes = <<>> /\ changesClosed = 1)]_vars
    /\ [](rclosed => (changes = <<>> /\ wpc \in {"closed", "exited"}))
    /\ []((changesClosed = 1 /\ changes = <<>> /\ ~rclosed) => ENABLED ReceiveClosed)

\* Stop was called after the context was cancelled and has returned, with an
\* event still in the buffer of the closed channel
C17_Witness ==
    /\ spc = "returned"
    /\ ctxDone
    /\ wpc = "exited"
    /\ changesClosed = 1
    /\ Len(changes) > 0

\* the poll goroutine is never stuck at a send
NeverBlocksOnPublication ==
    /\ Len(changes) <= ChangesCap
    /\ (wpc = "emit" /\ ei <= Len(events)) => ENABLED Emit

\* C18 as stated: a send that finds the channel saturated drops the oldest
\* pending event and appends the new one, and the poll goroutine never blocks
C18_SaturatedChannelDropsOldest ==
    /\ NeverBlocksOnPublication
    /\ elog.full => elog.after = Append(Tail(elog.before), elog.event)

\* C18, amended: a send that finds the channel saturated drops the new event
\* and leaves the pending events as they are, a send that finds room appends
\* the event, and the poll goroutine never blocks
C18_SaturatedChannelDropsNew ==
    /\ NeverBlocksOnPublication
    /\ elog.full => elog.after = elog.before
    /\ (~elog.full /\ elog.event # <<>>) => elog.after = Append(elog.before, elog.event)

\* the last send found the channel saturated, with two events pending
C18_Witness ==
    /\ elog.full
    /\ Len(elog.before) = ChangesCap
    /\ elog.event \notin {elog.before[i] : i \in 1..Len(elog.before)}

\* C19: the write lock is held only by the poll goroutine during its copy step
\* and never together with a read lock; outside the copy step the live record
\* is the record a completed copy step (or Watch) left; and what a reader read
\* when it took the read lock is such a record, never a partly copied one, and
\* is still what the live record holds for as long as the reader holds the lock
C19_ReadersSeeWholeCycles ==
    /\ mu.writer <=> wpc = "copy"
    /\ mu.writer => mu.readers = {}
    /\ (wpc \notin {"off", "new", "failed"} /\ dst # committed) => mu.writer
    /\ \A r \in mu.readers : rseen[r] = committed /\ dst = rseen[r]

\* two readers hold the read lock at once, after a cycle has copied new values,
\* while the poll goroutine waits for the write lock of the next cycle
C19_Witness ==
    /\ mu.readers = Readers
    /\ wroteCycle > 0
    /\ wpc = "lock"
    /\ tmp # dst

(***************************************************************************)
(* Claims about the dispatch of the fetches                                *)
(***************************************************************************)
\* the provider and the call that the FetchKey of plan entry sp stands for: the
\* provider bound to the scheme of its URI, or the default provider for a bare
\* key, the key without the scheme, Get for the empty version
ExpectedCall(sp) ==
    LET u == Cut(sp.key.uri, <<":","/","/">>)
        p == IF u.found THEN cfg.providers[u.before] ELSE cfg.defaultProvider
    IN  [versioned |-> p.versioned,
         call |-> [provider |-> p.id,
                   method   |-> IF sp.key.version = <<>> THEN "Get" ELSE "GetVersion",
                   key      |-> IF u.found THEN u.after ELSE sp.key.uri,
                   version  |-> sp.key.version]]

\* the goroutine of plan entry i has passed its dispatch step
Passed(i) == gpc[i] \in {"calling", "stored", "done"}

\* the provider of plan entry i has the method the entry needs
Supported(i) == specs[i].key.version = <<>> \/ ExpectedCall(specs[i]).versioned

\* C20: the provider calls made are exactly the calls of the plan entries that
\* passed their dispatch step: for each entry one call of the provider selected
\* by the scheme of its URI (the default provider for a bare key), Get with the
\* key for an empty version and GetVersion with the key and that version
\* otherwise, the key being free of scheme, fragment and options; an entry with
\* a version whose provider has no GetVersion makes no call and its result is
\* the versioning-not-supported error
C20_FetchDispatchedByTag ==
    /\ \A c \in BagToSet(calls) :
          /\ CopiesIn(c, calls) =
                 Cardinality({i \in 1..Len(specs) :
                                  /\ Passed(i)
                                  /\ Supported(i)
                                  /\ ExpectedCall(specs[i]).call = c})
          /\ ~Contains(c.key, <<":","/","/">>)
          /\ ~Contains(c.key, <<"#">>)
          /\ ~Contains(c.key, <<",">>)
    /\ \A i \in 1..Len(specs) :
          Passed(i) =>
              IF Supported(i)
                  THEN BagIn(ExpectedCall(specs[i]).call, calls)
                  ELSE /\ gpc[i] # "calling"
                       /\ ~BagIn(ExpectedCall(specs[i]).call, calls)
                       /\ \A c \in BagToSet(calls) :
                             ~(/\ c.provider = ExpectedCall(specs[i]).call.provider
                               /\ c.key = ExpectedCall(specs[i]).call.key
                               /\ c.version = ExpectedCall(specs[i]).call.version)
                       /\ results[String(specs[i].key)].err.kind
                              = "ErrVersioningNotSupported"

\* the fetches are over: one entry was dispatched to GetVersion of the provider
\* bound to its scheme, one to Get of the default provider, and one with a
\* version, planned for a provider without GetVersion, has failed without a call
C20_Witness ==
    /\ FetchDone
    /\ \E i \in 1..Len(specs) :
          /\ Passed(i)
          /\ ExpectedCall(specs[i]).call.method = "GetVersion"
          /\ Contains(specs[i].key.uri, <<":","/","/">>)
          /\ BagIn(ExpectedCall(specs[i]).call, calls)
    /\ \E i \in 1..Len(specs) :
          /\ Passed(i)
          /\ ExpectedCall(specs[i]).call.method = "Get"
          /\ BagIn(ExpectedCall(specs[i]).call, calls)
    /\ \E i \in 1..Len(specs) : Passed(i) /\ ~Supported(i)

(***************************************************************************)
(* Fields without annotation                                               *)
(***************************************************************************)
\* the untagged fields below the value v of type t that hold a nil pointer to a
\* subrecord, each with the type of that subrecord
RECURSIVE NilSubrecords(_, _, _)
NilSubrecords(t, v, path) ==
    UNION {
        LET f == t.fields[i]
            inner == IF f.Type.kind = "ptr" THEN f.Type.elem[1] ELSE f.Type
        IN  IF f.Tag # <<>> \/ inner.kind # "struct" THEN {}
            ELSE IF f.Type.kind = "ptr" /\ v[i] = <<>>
                THEN {[path |-> path \o <<i>>, elem |-> inner]}
            ELSE IF ~hasSecretTags(inner) THEN {}
            ELSE IF f.Type.kind = "ptr" THEN NilSubrecords(inner, v[i][1], path \o <<i, 1>>)
            ELSE NilSubrecords(inner, v[i], path \o <<i>>)
        : i \in 1..Len(t.fields)}

\* C21: when Resolve has returned, every field without a secret annotation
\* holds the value it had before the call, except that a nil pointer to a
\* subrecord is allocated exactly when the subrecord type holds an annotated
\* field; a nil pointer to a subrecord type without annotated field is still nil
C21_UnannotatedFieldsUnchangedExceptNestedAllocation ==
    pc = "done" =>
        /\ \A p \in PlainPaths(rtype, dst0, <<>>) : GetAt(dst, p) = GetAt(dst0, p)
        /\ \A n \in NilSubrecords(rtype, dst0, <<>>) :
               GetAt(dst, n.path) # <<>> <=> hasSecretTags(n.elem)

(***************************************************************************)
(* The order of the assignments                                            *)
(***************************************************************************)
\* the first loop of the walker over the fields of t from field i on: the
\* tagged fields, with the walk of an embedded struct in its place
RECURSIVE FirstPass(_, _), SecondPass(_, _)
FirstPass(t, i) ==
    IF i > Len(t.fields) THEN <<>>
    ELSE LET f == t.fields[i]
             here == IF f.Anonymous /\ f.Type.kind = "struct"
                         THEN FirstPass(f.Type, 1) \o SecondPass(f.Type, 1)
                     ELSE IF ~IsExported(f) \/ f.Tag = <<>> THEN <<>>
                     ELSE <<f>>
         IN  here \o FirstPass(t, i + 1)

\* the second loop of the walker: the walk of every untagged nested struct
\* that holds a tagged field
SecondPass(t, i) ==
    IF i > Len(t.fields) THEN <<>>
    ELSE LET f  == t.fields[i]
             ft == IF f.Type.kind = "ptr" THEN f.Type.elem[1] ELSE f.Type
             here == IF f.Anonymous \/ ~IsExported(f) \/ f.Tag # <<>> THEN <<>>
                     ELSE IF ft.kind = "struct" /\ hasSecretTags(ft)
                         THEN FirstPass(ft, 1) \o SecondPass(ft, 1)
                     ELSE <<>>
         IN  here \o SecondPass(t, i + 1)

\* the tagged fields of the record in the order of the walker
WalkOrder == FirstPass(rtype, 1) \o SecondPass(rtype, 1)

\* the names of the fields of fs that pass the checks of the walker
RECURSIVE PassingNames(_)
PassingNames(fs) ==
    IF fs = <<>> THEN <<>>
    ELSE (IF WalkerDefect(Head(fs)) THEN <<>> ELSE <<Head(fs).Name>>)
         \o PassingNames(Tail(fs))

IsPrefix(a, b) == Len(a) <= Len(b) /\ SubSeq(b, 1, Len(a)) = a

\* the errors errs name fields of fs in the order of fs
ErrorsOrdered(errs, fs) ==
    \A i, j \in 1..Len(errs) :
        i < j => \E k, l \in 1..Len(fs) :
                    /\ k <= l
                    /\ Names(errs[i], fs[k].Name)
                    /\ Names(errs[j], fs[l].Name)

\* no field is assigned while a fetch of the plan is outstanding
AssignAfterFetches ==
    /\ assigned # <<>> => \A i \in 1..Len(specs) : gpc[i] = "done"
    /\ pc = "fetch" => assigned = <<>> /\ assignErrs = <<>>

\* from the walk to the end of the fetches the record is not written
FetchesLeaveRecord == pc = "fetch" => dst' = dst

\* C22 as stated: no field is assigned before every fetch has completed, and
\* the assignments and the per-field errors of the joined error follow the
\* declaration order of the fields, the fields of a nested record standing at
\* the position of that record in its parent
C22_AssignmentsInDeclarationOrder ==
    /\ AssignAfterFetches
    /\ IsPrefix(assigned, PassingNames(AllTagged))
    /\ pc = "done" => ErrorsOrdered(RetErrs, AllTagged)

\* C22: no field is assigned before every fetch has completed, and the
\* assignments follow the order of the walker whatever the order of the
\* fetches: per record the tagged fields in declaration order, an embedded
\* record standing at its own position, and after them the fields of the
\* untagged nested records; the joined error lists the errors of the walker and
\* after them the errors of the assignments, each group in the walker's order
C22_AssignmentsInWalkerOrder ==
    /\ [](/\ AssignAfterFetches
          /\ IsPrefix(assigned, PassingNames(WalkOrder))
          /\ pc \in {"assign", "done"} /\ fields # <<>> =>
                /\ ErrorsOrdered(collectErrs, WalkOrder)
                /\ ErrorsOrdered(assignErrs, WalkOrder)
          /\ pc = "done" /\ fields # <<>> => ret = Join(collectErrs \o assignErrs)
          /\ pc = "done" => (assigned = PassingNames(WalkOrder) \/ fields = <<>>))
    /\ [][FetchesLeaveRecord]_vars

\* Resolve assigned the three fields of a record whose nested record is
\* declared before its tagged fields, and two of the assignments failed
C22_Witness ==
    /\ pc = "done"
    /\ Len(assigned) = 3
    /\ assigned = PassingNames(WalkOrder)
    /\ assigned # PassingNames(AllTagged)
    /\ Len(assignErrs) >= 2

(***************************************************************************)
(* The bytes of a change event                                             *)
(***************************************************************************)
\* the fields of the watched record as the walker collects them
WatchedFields ==
    collectFields(cfg, rtype, <<>>, [fields |-> <<>>, errs |-> <<>>, root |-> dst]).fields

\* the bytes of the secret of fi after fragment extraction, as a provider
\* with the secrets s hands them out; no bytes for a secret that is missing
FetchedBytes(fi, s) ==
    LET r == Get(s, fi.tag.Key)
    IN  IF r.err # NilError THEN <<>> ELSE afterFragment(fi, r.data).data

\* the positions at which the fetched bytes of two Resolves differ
DifferingFetched(fis, old, new) ==
    {i \in 1..Len(fis) : FetchedBytes(fis[i], old) # FetchedBytes(fis[i], new)}

\* C23: at the end of a successful cycle the events offered are those of the
\* fields whose fetched post-fragment bytes differ between the last successful
\* Resolve and this one, and OldValue and NewValue of each are these bytes
C23_EventsCarryFetchedBytes ==
    CycleSucceeded =>
        LET fis == WatchedFields
            D   == DifferingFetched(fis, cycleLog.base, cycleLog.store)
        IN  /\ Len(cycleLog.offered) = Cardinality(D)
            /\ \A j \in 1..Len(cycleLog.offered) :
                  LET i == Nth(D, j)
                      e == cycleLog.offered[j]
                  IN  /\ e.Field = fis[i].fieldName
                      /\ e.OldValue = FetchedBytes(fis[i], cycleLog.base)
                      /\ e.NewValue = FetchedBytes(fis[i], cycleLog.store)

(***************************************************************************)
(* Claims about the entries of the CachedProvider                          *)
(***************************************************************************)
\* the last step was a cache hit of the call kreq
CacheHit == klog.kind = "hit" /\ kpc = "idle"

\* C24: a cache hit returns the bytes of an entry that a call with the same
\* method, key and version stored, for all keys and versions: Get never
\* returns what GetVersion stored, nor GetVersion what another version stored
C24_HitReturnsBytesOfTheSameRequest ==
    CacheHit =>
        /\ klog.key \in DOMAIN kowner
        /\ kowner[klog.key] = kreq
        /\ kret.data = klog.data

\* C26: once Clear has returned, a call that starts afterwards is not served
\* from an entry stored by a call that was under way when Clear ran: the next
\* request for a key after Clear calls the wrapped provider
C26_ClearEvictsUnderConcurrency ==
    CacheHit => klog.key \notin kstale

(***************************************************************************)
(* Claims about parseTag                                                   *)
(***************************************************************************)
Letters ==
    UpperCase \cup {"a", "b", "c", "d", "e", "f", "g", "h", "i", "j", "k", "l", "m",
                    "n", "o", "p", "q", "r", "s", "t", "u", "v", "w", "x", "y", "z"}

\* the syntax of an identifier: a letter followed by letters, digits and the
\* signs of URI schemes
IsIdent(s) ==
    /\ s # <<>>
    /\ Head(s) \in Letters
    /\ \A i \in 1..Len(s) : s[i] \in Letters \/ IsDigit(s[i]) \/ s[i] \in {"+", "-", ".", "_"}

\* the tag handed to parseTag
TagRaw == TagText(tagParts)

\* the URI part of the tag: the text before the first comma
TagHead == IF TagRaw = <<>> THEN <<>> ELSE Split(TagRaw, <<",">>)[1]

\* the options of the tag: the texts between the commas after the URI part
TagOptions ==
    IF TagRaw = <<>> THEN <<>> ELSE SubSeq(Split(TagRaw, <<",">>), 2, Len(Split(TagRaw, <<",">>)))

\* the URI part without its last "#" and what follows it
TagBeforeFragment ==
    IF LastIndex(TagHead, <<"#">>) >= 1
        THEN SubSeq(TagHead, 1, LastIndex(TagHead, <<"#">>) - 1)
        ELSE TagHead

\* what follows the last "#" of the URI part
TagAfterHash ==
    IF LastIndex(TagHead, <<"#">>) >= 1
        THEN SubSeq(TagHead, LastIndex(TagHead, <<"#">>) + 1, Len(TagHead))
        ELSE <<>>

\* the text before and the text after the first "://"
TagSchemePart == IF Cut(TagBeforeFragment, <<":","/","/">>).found
                    THEN Cut(TagBeforeFragment, <<":","/","/">>).before ELSE <<>>

TagKeyPart == IF Cut(TagBeforeFragment, <<":","/","/">>).found
                 THEN Cut(TagBeforeFragment, <<":","/","/">>).after ELSE TagBeforeFragment

UnknownOption ==
    \E i \in 1..Len(TagOptions) :
        TagOptions[i] # <<"o","p","t","i","o","n","a","l">> /\ ~HasPrefix(TagOptions[i], <<"v","e","r","s","i","o","n","=">>)

\* the empty tag, a tag with an unknown option and a tag with an empty key,
\* "scheme://" with nothing behind it among them
Rejectable == TagRaw = <<>> \/ UnknownOption \/ TagKeyPart = <<>>

TagAccepted == tpc = "parsed" /\ tagRet.err = NilError

\* C25 as stated: an accepted tag has a non-empty key, a scheme that is empty
\* or an identifier and a canonical URI without fragment; the empty tag, a tag
\* with an empty key, one with an unknown option and "scheme://" are rejected
C25_AcceptedTagsHaveKeyAndIdentScheme ==
    /\ TagAccepted =>
          /\ tagRet.t.Key # <<>>
          /\ tagRet.t.Scheme = <<>> \/ IsIdent(tagRet.t.Scheme)
          /\ ~Contains(URI(tagRet.t), <<"#">>)
    /\ tpc = "parsed" /\ Rejectable => tagRet.err # NilError

\* C25: an accepted tag has a non-empty key; its scheme is the text before the
\* first "://" of the URI part, whatever that text is, and empty without "://";
\* its canonical URI is made of the URI part without the last "#" and the
\* fragment behind it; exactly the empty tag, the tags with an empty key,
\* "scheme://" among them, and the tags with an unknown option are rejected
C25_AcceptedTagsHaveKeyAndUncheckedScheme ==
    /\ TagAccepted =>
          /\ tagRet.t.Key # <<>>
          /\ tagRet.t.Key = TagKeyPart
          /\ tagRet.t.Scheme = TagSchemePart
          /\ tagRet.t.Fragment = TagAfterHash
          /\ URI(tagRet.t) = IF TagSchemePart # <<>> THEN TagBeforeFragment ELSE TagKeyPart
    /\ tpc = "parsed" => (Rejectable <=> tagRet.err # NilError)

\* an accepted tag whose scheme is no identifier, with a fragment
C25_Witness ==
    /\ TagAccepted
    /\ tagRet.t.Scheme # <<>>
    /\ ~IsIdent(tagRet.t.Scheme)
    /\ tagRet.t.Fragment = <<"f">>
    /\ tagRet.t.Key = <<"k">>

(***************************************************************************)
(* Claims about Stop                                                       *)
(***************************************************************************)
\* C27: Stop can be called any number of times, one call after the other or
\* several at once, before or after the context is cancelled: w.stop is closed
\* at most once, so that no call panics, and a call of Stop has returned only
\* when the worker has exited
C27_StopIsSafeToCallConcurrently ==
    /\ stopCloses <= 1
    /\ \A g \in Stoppers : stpc[g] = "returned" => wpc = "exited"

(***************************************************************************)
(* Claims about watched versioned pairs                                    *)
(***************************************************************************)
\* between the two Resolves the previous version of k1 alone has changed
OnlyPreviousChanged(old, new) ==
    /\ old.data = new.data
    /\ old.failing = new.failing
    /\ old.versions # new.versions

\* C28: a successful cycle in which the previous slot of a versioned pair alone
\* differs from the last successful Resolve publishes an event for that field
\* and leaves the new previous value in the live record
C28_PreviousSlotChangeIsDetected ==
    CycleSucceeded /\ rtype = RecPair
                   /\ OnlyPreviousChanged(cycleLog.base, cycleLog.store) =>
        /\ \E j \in 1..Len(cycleLog.offered) : cycleLog.offered[j].Field = <<"K","e","y">>
        /\ GetAt(dst, <<1, 2>>) = cycleLog.store.versions[<<<<"k","1">>, <<"p","r","e","v","i","o","u","s">>>>]

\* a step that starts a cycle whose Resolve succeeds and reads secrets of
\* which the previous versions alone differ from those of the last cycle
PreviousOnlyCycleStep ==
    /\ cycle' = cycle + 1
    /\ ~cycleLog'.failed
    /\ OnlyPreviousChanged(cycleLog'.base, cycleLog'.store)

\* C28 amended: the watcher detects a change in the current slot of a
\* versioned pair only: a successful cycle in which only the previous slot's
\* value differs from the last cycle publishes no event and leaves the live
\* record as it was, and a successful cycle in which the current slot differs
\* publishes an event for the field and copies both slots into the live record
C28_CurrentSlotChangeIsDetected ==
    /\ [][PreviousOnlyCycleStep =>
             /\ events' = events
             /\ changes' = changes
             /\ dst' = dst
             /\ wpc' = "select"]_vars
    /\ [](CycleSucceeded /\ rtype = RecPair =>
             /\ OnlyPreviousChanged(cycleLog.base, cycleLog.store) => cycleLog.offered = <<>>
             /\ cycleLog.base.data[<<"k","1">>] # cycleLog.store.data[<<"k","1">>] =>
                   /\ \E j \in 1..Len(cycleLog.offered) : cycleLog.offered[j].Field = <<"K","e","y">>
                   /\ GetAt(dst, <<1>>) = <<cycleLog.store.data[<<"k","1">>],
                                            cycleLog.store.versions[<<<<"k","1">>, <<"p","r","e","v","i","o","u","s">>>>]>>)

\* a cycle has succeeded after the previous version alone was replaced: no
\* event, and the live record holds the previous version of the cycle before
C28_Witness ==
    /\ CycleSucceeded
    /\ rtype = RecPair
    /\ OnlyPreviousChanged(cycleLog.base, cycleLog.store)
    /\ cycleLog.offered = <<>>
    /\ cycleLog.store.versions[<<<<"k","1">>, <<"p","r","e","v","i","o","u","s">>>>] = <<"p","2">>
    /\ GetAt(dst, <<1, 2>>) = <<"p","1">>

(***************************************************************************)
(* C29                                                                     *)
(***************************************************************************)
\* the walk of a Resolve of the record root, and the answers of the providers
\* to its plan with the secrets as they are
Walked(root) ==
    collectFields(cfg, rtype, <<>>, [fields |-> <<>>, errs |-> <<>>, root |-> root])

Answers(c) ==
    fetchAll(buildPlan(c.fields, 1, [seen |-> {}, specs |-> <<>>]).specs, 1, <<>>, backend)

\* the slots of a walked field, their places in the record and their types
Slots(fi) == IF fi.isVersioned THEN {1, 2} ELSE {1}

SlotPath(fi, k) == IF fi.isVersioned THEN fi.fieldValue \o <<k>> ELSE fi.fieldValue

SlotType(fi, k) == IF fi.isVersioned THEN fi.fieldType.fields[k].Type ELSE fi.fieldType

\* fetch, fragment extraction and conversion of the k-th slot of fi: the
\* value for the slot, or the first error
Converted(fi, k, res) ==
    LET r    == res[String(KeysOf(fi)[k])]
        frag == afterFragment(fi, r.data)
    IN  IF r.err # NilError THEN [val |-> 0, err |-> r.err]
        ELSE IF frag.err # NilError THEN [val |-> 0, err |-> frag.err]
        ELSE setField(SlotType(fi, k), fi.fieldName, frag.data)

SlotOk(fi, k, res) == Converted(fi, k, res).err = NilError

\* fetch and conversion of the field succeed
FieldOk(fi, res) == \A k \in Slots(fi) : SlotOk(fi, k, res)

\* the field fails: Resolve has an error for it
FieldFails(fi, res) ==
    \/ /\ ~SlotOk(fi, 1, res)
       /\ ~(fi.tag.Optional /\ IsNotFound(res[String(KeysOf(fi)[1])].err))
    \/ /\ fi.isVersioned
       /\ SlotOk(fi, 1, res)
       /\ ~SlotOk(fi, 2, res)
       /\ ~IsNotFound(res[String(KeysOf(fi)[2])].err)

\* every field whose fetch and conversion succeed holds its new value in after
OkFieldsAssigned(c, res, after) ==
    \A i \in 1..Len(c.fields) :
        FieldOk(c.fields[i], res) =>
            \A k \in Slots(c.fields[i]) :
                GetAt(after, SlotPath(c.fields[i], k)) = Converted(c.fields[i], k, res).val

\* every failing field holds in after what it held in the walked record
FailingFieldsKept(c, res, after) ==
    \A i \in 1..Len(c.fields) :
        FieldFails(c.fields[i], res) =>
            GetAt(after, c.fields[i].fieldValue) = GetAt(c.root, c.fields[i].fieldValue)

\* every failing field holds in after what it held in the walked record,
\* except the Current slot of a versioned pair that was fetched and converted
FailingSlotsKept(c, res, after) ==
    \A i \in 1..Len(c.fields) :
        FieldFails(c.fields[i], res) =>
            \A k \in Slots(c.fields[i]) :
                GetAt(after, SlotPath(c.fields[i], k)) =
                    IF c.fields[i].isVersioned /\ k = 1 /\ SlotOk(c.fields[i], 1, res)
                        THEN Converted(c.fields[i], 1, res).val
                        ELSE GetAt(c.root, SlotPath(c.fields[i], k))

\* the step of a Watch whose Resolve of the live record fails
FailedWatchStep == wpc = "new" /\ wpc' = "failed"

\* the temporary copy a cycle that starts now resolves
Shadow == Resolve(cfg, backend, rtype, Zero(rtype))

\* C29 as claimed: when a Resolve fails, every field whose fetch and
\* conversion succeed is assigned its new value and every failing field keeps
\* its prior value, on the record Resolve is given: the live record in Watch,
\* the temporary copy in a cycle; and a failing cycle changes no field of the
\* live record
C29_FailingFieldsKeepPriorValues ==
    /\ [][FailedWatchStep =>
             /\ OkFieldsAssigned(Walked(dst), Answers(Walked(dst)), dst')
             /\ FailingFieldsKept(Walked(dst), Answers(Walked(dst)), dst')]_vars
    /\ [][FailedCycleStep =>
             /\ OkFieldsAssigned(Walked(Zero(rtype)), Answers(Walked(Zero(rtype))), Shadow.root)
             /\ FailingFieldsKept(Walked(Zero(rtype)), Answers(Walked(Zero(rtype))), Shadow.root)
             /\ dst' = dst]_vars

\* C29 amended: when a Resolve fails, every field whose fetch and conversion
\* succeed is assigned its new value and every failing field keeps its prior
\* value, except that a versioned pair that fails on its previous version
\* keeps the new Current that was assigned before; this on the record Resolve
\* is given: the live record in Watch, the temporary copy in a cycle; and a
\* failing cycle changes no field of the live record
C29_FailingFieldsKeepPriorValuesButCurrent ==
    /\ [][FailedWatchStep =>
             /\ OkFieldsAssigned(Walked(dst), Answers(Walked(dst)), dst')
             /\ FailingSlotsKept(Walked(dst), Answers(Walked(dst)), dst')]_vars
    /\ [][FailedCycleStep =>
             /\ Shadow.err # NilError
             /\ OkFieldsAssigned(Walked(Zero(rtype)), Answers(Walked(Zero(rtype))), Shadow.root)
             /\ FailingSlotsKept(Walked(Zero(rtype)), Answers(Walked(Zero(rtype))), Shadow.root)
             /\ dst' = dst]_vars

\* a cycle has failed on the previous version of the number: its temporary
\* copy got the other fields and the new Current, and the live record holds
\* what the last successful Resolve gave it
C29_Witness ==
    /\ wpc = "select"
    /\ cycle > 0
    /\ cycleLog.failed
    /\ cycleLog.store = backend.p1
    /\ backend.p1 = PairStore3
    /\ Shadow.err # NilError
    /\ GetAt(Shadow.root, <<1, 1>>) = <<"c","1">>
    /\ GetAt(Shadow.root, <<3>>) = <<6, 0>>
    /\ GetAt(dst, <<3>>) = <<5, 4>>

(***************************************************************************)
(* C30                                                                     *)
(***************************************************************************)
\* the positions of the goroutine of a plan entry, in the order it takes them
GoroutineOrder ==
    {<<"spawned", "acquired">>, <<"acquired", "calling">>, <<"acquired", "stored">>,
     <<"calling", "stored">>, <<"stored", "done">>}

\* the goroutines that hold a slot of the semaphore
Holders == {i \in 1..Len(gpc) : gpc[i] \in {"acquired", "calling", "stored"}}

\* C30: Resolve terminates without deadlock: whatever the number of plan
\* entries and the parallelism P >= 1, every goroutine of the plan acquires
\* the semaphore, runs and releases it, never more than P hold it, the fetch
\* phase ends and Resolve returns, and it goes on to the assignments only
\* after every entry has completed, no provider call in flight, no slot taken
C30_ResolveTerminates ==
    /\ (pc = "fetch") ~> (pc = "assign")
    /\ (pc = "assign") ~> (pc = "done")
    /\ [](/\ cfg.parallelism >= 1
          /\ sem = Cardinality(Holders)
          /\ sem <= cfg.parallelism)
    /\ [](pc \in {"assign", "done"} =>
             /\ \A i \in 1..Len(gpc) : gpc[i] = "done"
             /\ sem = 0)
    /\ [][\A i \in 1..Len(gpc) :
             (Len(gpc') = Len(gpc) /\ gpc'[i] # gpc[i]) =>
                 <<gpc[i], gpc'[i]>> \in GoroutineOrder]_vars

\* Resolve has returned after a plan of more entries than the semaphore has
\* slots, each of which went through a provider call
C30_Witness ==
    /\ pc = "done"
    /\ Len(specs) > cfg.parallelism
    /\ \A i \in 1..Len(specs) : gpc[i] = "done"
    /\ BagCardinality(calls) = Len(specs)
    /\ sem = 0

====
